---- MODULE Spec2Model ----
(***************************************************************************)
(* State-machine model of the Halloween party game server: the event       *)
(* scheduler (timers, broadcast slot), the per-session cursor resolver and *)
(* the HTTP handlers that record answers and move cursors.                 *)
(*                                                                         *)
(* Strings the code inspects character by character (answers, trigger      *)
(* keys, content) are sequences of one-character strings; optional values  *)
(* (T | undefined, T | null) are the empty tuple or a one-element tuple.   *)
(* Timeline positions are 0-based as in the code: position p is events[p+1]*)
(***************************************************************************)
EXTENDS Integers, Sequences, FiniteSets, TLC

\* ------------------------------------------------------------------ bounds
MaxEvents == 2
MaxTime == 2
MaxRequests == 3
MaxSchedRequests == 4
MaxRecords == 2

\* ------------------------------------------------------------- vocabulary
Sessions == {"s1", "s2"}

IdPool == <<"e1", "e2", "e3", "e4", "e5">>

UnknownId == "zz"

Missing == "undefined"

Correct == <<"c", "o", "r", "r", "e", "c", "t">>

Wrong == <<"w", "r", "o", "n", "g">>

AnswerToken == "{answer}"

Five == <<"5">>

PaddedFive == <<" ", "5">>

No == <<"N", "o">>

Answers == {PaddedFive, No}

Null == [null |-> TRUE]

NoValidation == [type |-> "undefined"]

NoTriggers == [kind |-> "undefined"]

\* ------------------------------------------------------ event definitions
\* EventConfig of types.ts; duration, mandatory are optional
EventConfig(id, type, content, triggerAt, duration, mandatory, validation, onAnswer) ==
  [id |-> id, type |-> type, content |-> content, triggerAt |-> triggerAt,
   duration |-> duration, mandatory |-> mandatory, validation |-> validation,
   onAnswer |-> onAnswer,
   placeholder |-> IF type = "question" THEN "Your answer" ELSE Missing,
   options |-> IF type = "multiple_choice" THEN <<"a", "b">> ELSE <<>>,
   componentName |-> IF type = "custom_component" THEN "CountdownTimer" ELSE Missing,
   props |-> IF type = "custom_component" THEN "props" ELSE Missing]

\* branch children listed under triggers.onAnswer
NiceChild ==
  EventConfig("b1", "text", <<"Nice, ", AnswerToken, "!">>, 0, <<1>>, <<>>,
              NoValidation, NoTriggers)

OkChild ==
  EventConfig("b2", "text", <<"Ok">>, 0, <<>>, <<>>, NoValidation, NoTriggers)

\* the i-th event of the configured timeline, with its mandatory flag
Catalog(i, m) ==
  CASE i = 1 -> EventConfig(IdPool[1], "text", <<"Welcome">>, 1, <<1>>, m,
                            NoValidation, NoTriggers)
    [] i = 2 -> EventConfig(IdPool[2], "question", <<"2+3?">>, 2, <<>>, m,
                            [type |-> "exact", correctAnswers |-> <<Five>>],
                            [kind |-> "map",
                             keys |-> <<Correct>>,
                             lists |-> <<(<<NiceChild>>)>>])
    [] i = 3 -> EventConfig(IdPool[3], "multiple_choice", <<"Pick">>, 3, <<>>, m,
                            NoValidation,
                            [kind |-> "array", list |-> <<OkChild>>])
    [] OTHER -> EventConfig(IdPool[i], "text", <<"More">>, i, <<>>, m,
                            NoValidation, NoTriggers)

Mandatories == {<<>>, <<TRUE>>}

Timelines ==
  UNION {{[i \in 1..n |-> Catalog(i, ms[i])] : ms \in [1..n -> Mandatories]}
         : n \in 0..MaxEvents}

EventIds == {IdPool[i] : i \in 1..MaxEvents}

\* ------------------------------------------------------------------ state
\* last and fired record the run: the last response or timer callback, and
\* the timeline definitions that fired since the game was last started;
\* client is the browser side: the state of its fetchWithRetry call
VARIABLES events, now, gameStartTime, currentEvent, timers,
          sessions, cursors, answers, requests, last, fired, client

vars == <<events, now, gameStartTime, currentEvent, timers,
          sessions, cursors, answers, requests, last, fired, client>>

schedulerVars == <<gameStartTime, currentEvent, timers>>

dbVars == <<sessions, cursors, answers>>

\* ------------------------------------------------------- answer handler
IsSpace(c) == c \in {" ", "\t", "\n"}

RECURSIVE TrimStart(_)
TrimStart(str) ==
  IF str # <<>> /\ IsSpace(Head(str)) THEN TrimStart(Tail(str)) ELSE str

RECURSIVE TrimEnd(_)
TrimEnd(str) ==
  IF str # <<>> /\ IsSpace(str[Len(str)])
  THEN TrimEnd(SubSeq(str, 1, Len(str) - 1)) ELSE str

\* String.prototype.trim
Trim(str) == TrimEnd(TrimStart(str))

LowerChar(c) ==
  CASE c = "N" -> "n"
    [] c = "O" -> "o"
    [] c = "Y" -> "y"
    [] c = "E" -> "e"
    [] c = "S" -> "s"
    [] OTHER -> c

\* String.prototype.toLowerCase
ToLowerCase(str) == [i \in 1..Len(str) |-> LowerChar(str[i])]

\* RegExp.prototype.test for a pattern of literal characters: unanchored search
RegexTest(pattern, str) ==
  \E k \in 0..(Len(str) - Len(pattern)) :
    SubSeq(str, k + 1, k + Len(pattern)) = pattern

\* new RegExp(pattern) throws a SyntaxError: the pattern opens a group that
\* it does not close
RegExpThrows(pattern) ==
  \E k \in 1..Len(pattern) :
    pattern[k] = "(" /\ \A j \in (k + 1)..Len(pattern) : pattern[j] # ")"

\* ---- JavaScript values an answer can be (a JSON body): the tag is typeof
Str(s) == [typeof |-> "string", str |-> s]

Num(n) == [typeof |-> "number", num |-> n]

Bool(b) == [typeof |-> "boolean", bool |-> b]

JsNull == [typeof |-> "object", class |-> "null"]

\* an array of strings
Arr(items) == [typeof |-> "object", class |-> "array", items |-> items]

\* an object with one string-valued property
Obj(key, val) == [typeof |-> "object", class |-> "object", key |-> key, val |-> val]

\* an object with one boolean-valued property
Flag(key, bool) == [typeof |-> "object", class |-> "flag", key |-> key, bool |-> bool]

DigitChar(d) == <<"0", "1", "2", "3", "4", "5", "6", "7", "8", "9">>[d + 1]

\* Number.prototype.toString of an integer
RECURSIVE Digits(_)
Digits(n) ==
  IF n < 0 THEN <<"-">> \o Digits(0 - n)
  ELSE IF n < 10 THEN <<DigitChar(n)>>
  ELSE Digits(n \div 10) \o <<DigitChar(n % 10)>>

\* Array.prototype.join(sep) over strings
RECURSIVE Join(_, _)
Join(items, sep) ==
  IF items = <<>> THEN <<>>
  ELSE IF Len(items) = 1 THEN items[1]
  ELSE items[1] \o sep \o Join(Tail(items), sep)

\* String(value)
String(value) ==
  CASE value.typeof = "string" -> value.str
    [] value.typeof = "number" -> Digits(value.num)
    [] value.typeof = "boolean" ->
         IF value.bool THEN <<"t", "r", "u", "e">> ELSE <<"f", "a", "l", "s", "e">>
    [] value.class = "null" -> <<"n", "u", "l", "l">>
    [] value.class = "array" -> Join(value.items, <<",">>)
    [] OTHER -> <<"[", "o", "b", "j", "e", "c", "t", " ", "O", "b", "j", "e", "c", "t", "]">>

\* the JSON text of a string: quoted, with quote and backslash escaped
RECURSIVE Escape(_)
Escape(str) ==
  IF str = <<>> THEN <<>>
  ELSE (IF Head(str) \in {"\"", "\\"} THEN <<"\\", Head(str)>> ELSE <<Head(str)>>)
       \o Escape(Tail(str))

Quote(str) == <<"\"">> \o Escape(str) \o <<"\"">>

\* JSON.stringify(value)
JSONStringify(value) ==
  CASE value.typeof = "string" -> Quote(value.str)
    [] value.typeof = "number" -> Digits(value.num)
    [] value.typeof = "boolean" ->
         IF value.bool THEN <<"t", "r", "u", "e">> ELSE <<"f", "a", "l", "s", "e">>
    [] value.class = "null" -> <<"n", "u", "l", "l">>
    [] value.class = "array" ->
         <<"[">> \o Join([k \in 1..Len(value.items) |-> Quote(value.items[k])], <<",">>)
         \o <<"]">>
    [] value.class = "flag" ->
         <<"{">> \o Quote(value.key) \o <<":">>
         \o (IF value.bool THEN <<"t", "r", "u", "e">> ELSE <<"f", "a", "l", "s", "e">>)
         \o <<"}">>
    [] OTHER -> <<"{">> \o Quote(value.key) \o <<":">> \o Quote(value.val) \o <<"}">>

\* variant: the check of the event type is dropped
validateAnswer_AnyType(answer, event) ==
  IF event.validation = NoValidation THEN TRUE
  ELSE LET validation == event.validation
           answerStr == ToLowerCase(Trim(String(answer)))
       IN CASE validation.type = "exact" ->
                 \E k \in 1..Len(validation.correctAnswers) :
                   ToLowerCase(Trim(validation.correctAnswers[k])) = answerStr
            [] validation.type = "regex" -> RegexTest(validation.pattern, answerStr)
            [] validation.type = "custom" -> TRUE
            [] OTHER -> TRUE

\* variant: the answer is lower-cased but not trimmed
validateAnswer_NoTrim(answer, event) ==
  IF event.type # "question" /\ event.type # "multiple_choice" THEN TRUE
  ELSE IF event.validation = NoValidation THEN TRUE
  ELSE LET validation == event.validation
           answerStr == ToLowerCase(String(answer))
       IN CASE validation.type = "exact" ->
                 \E k \in 1..Len(validation.correctAnswers) :
                   ToLowerCase(Trim(validation.correctAnswers[k])) = answerStr
            [] validation.type = "regex" -> RegexTest(validation.pattern, answerStr)
            [] validation.type = "custom" -> TRUE
            [] OTHER -> TRUE

validateAnswer(answer, event) ==
  IF event.type # "question" /\ event.type # "multiple_choice" THEN TRUE
  ELSE IF event.validation = NoValidation THEN TRUE
  ELSE LET validation == event.validation
           answerStr == ToLowerCase(Trim(String(answer)))
       IN CASE validation.type = "exact" ->
                 \E k \in 1..Len(validation.correctAnswers) :
                   ToLowerCase(Trim(validation.correctAnswers[k])) = answerStr
            [] validation.type = "regex" -> RegexTest(validation.pattern, answerStr)
            [] validation.type = "custom" -> TRUE
            [] OTHER -> TRUE

\* validateAnswer ends in the SyntaxError of new RegExp(validation.pattern)
validateAnswerThrows(answer, event) ==
  /\ event.type = "question" \/ event.type = "multiple_choice"
  /\ event.validation # NoValidation
  /\ event.validation.type = "regex"
  /\ RegExpThrows(event.validation.pattern)

\* evaluateAnswer calls validateAnswer when the event has a validation rule
evaluateAnswerThrows(answer, event) ==
  event.validation # NoValidation /\ validateAnswerThrows(answer, event)

\* variant: an answer without validation is normalised like a validated one
evaluateAnswer_Normalised(answer, event) ==
  IF event.validation # NoValidation
  THEN IF validateAnswer(answer, event) THEN Correct ELSE Wrong
  ELSE ToLowerCase(Trim(String(answer)))

evaluateAnswer(answer, event) ==
  IF event.validation # NoValidation
  THEN IF validateAnswer(answer, event) THEN Correct ELSE Wrong
  ELSE IF answer.typeof = "string" THEN answer.str ELSE JSONStringify(answer)

\* --------------------------------------------------------------- database
\* getSessionCursor: the stored index, 0 when the session has no cursor row
getSessionCursor(cur, s) == IF cur[s] = <<>> THEN 0 ELSE cur[s][1]

\* variant: the row is written with the index after the requested one
setSessionCursor_Next(cur, s, eventIndex) == [cur EXCEPT ![s] = <<eventIndex + 1>>]

\* setSessionCursor: upsert of the cursor row
setSessionCursor(cur, s, eventIndex) == [cur EXCEPT ![s] = <<eventIndex>>]

\* variant: the cursor is moved two positions
incrementSessionCursor_ByTwo(cur, s) ==
  setSessionCursor(cur, s, getSessionCursor(cur, s) + 2)

incrementSessionCursor(cur, s) ==
  setSessionCursor(cur, s, getSessionCursor(cur, s) + 1)

\* variant: the count is compared with 1 instead of 0
hasSessionAnswered_OffByOne(ans, s, eventId) == Len(ans[s][eventId]) > 1

\* variant: the query never finds a row
hasSessionAnswered_Never(ans, s, eventId) == Len(ans[s][eventId]) < 0

\* hasSessionAnswered: COUNT(*) > 0 over the session's rows for the event
hasSessionAnswered(ans, s, eventId) == Len(ans[s][eventId]) > 0

\* variant: the row is inserted for every session
recordAnswer_AllSessions(ans, s, eventId, value) ==
  LET answerValue == IF value.typeof = "string" THEN value.str
                     ELSE JSONStringify(value)
  IN [t \in DOMAIN ans |-> [ans[t] EXCEPT ![eventId] = Append(@, answerValue)]]

\* recordAnswer: plain INSERT, the table has no uniqueness constraint; the
\* stored answer_value is the string itself or the JSON text of the value
recordAnswer(ans, s, eventId, value) ==
  LET answerValue == IF value.typeof = "string" THEN value.str
                     ELSE JSONStringify(value)
  IN [ans EXCEPT ![s][eventId] = Append(@, answerValue)]

\* -------------------------------------------------------------- scheduler
\* variant: the view carries the validation rule of the definition
eventToDisplayEvent_WithValidation(event) ==
  [type |-> event.type, eventId |-> event.id, content |-> event.content,
   placeholder |-> event.placeholder, options |-> event.options,
   componentName |-> event.componentName, props |-> event.props,
   duration |-> event.duration, mandatory |-> event.mandatory,
   validation |-> event.validation]

\* variant: the view is built without the content of the definition
eventToDisplayEvent_NoContent(event) ==
  [type |-> event.type, eventId |-> event.id, content |-> <<>>,
   placeholder |-> event.placeholder, options |-> event.options,
   componentName |-> event.componentName, props |-> event.props,
   duration |-> event.duration, mandatory |-> event.mandatory]

\* EventScheduler.eventToDisplayEvent: the fields copied into the view; the
\* definition's validation, triggers and triggerAt are not among them
eventToDisplayEvent(event) ==
  [type |-> event.type, eventId |-> event.id, content |-> event.content,
   placeholder |-> event.placeholder, options |-> event.options,
   componentName |-> event.componentName, props |-> event.props,
   duration |-> event.duration, mandatory |-> event.mandatory]

\* the literal { type: 'none', eventId, content: '' }
NoneEvent(eventId) == [type |-> "none", eventId |-> eventId, content |-> <<>>]

\* truthiness of an optional boolean and of an optional number
TruthyFlag(opt) == opt # <<>> /\ opt[1]

TruthyNumber(opt) == opt # <<>> /\ opt[1] # 0

Min(a, b) == IF a < b THEN a ELSE b

\* variant: the last unanswered mandatory event is returned, not the first
getEventForSession_Last(evs, cursorIndex, ans, s) ==
  LET Blocking(event) ==
        TruthyFlag(event.mandatory) /\ ~hasSessionAnswered(ans, s, event.id)
      unansweredMandatory ==
        SelectSeq(SubSeq(evs, 1, Min(cursorIndex, Len(evs))), Blocking)
  IN IF Len(unansweredMandatory) > 0
     THEN eventToDisplayEvent(unansweredMandatory[Len(unansweredMandatory)])
     ELSE IF cursorIndex < Len(evs)
          THEN eventToDisplayEvent(evs[cursorIndex + 1])
          ELSE NoneEvent("")

\* variant: the scan for mandatory events runs over the whole timeline
getEventForSession_WholeTimeline(evs, cursorIndex, ans, s) ==
  LET Blocking(event) ==
        TruthyFlag(event.mandatory) /\ ~hasSessionAnswered(ans, s, event.id)
      unansweredMandatory == SelectSeq(evs, Blocking)
  IN IF Len(unansweredMandatory) > 0
     THEN eventToDisplayEvent(unansweredMandatory[1])
     ELSE IF cursorIndex < Len(evs)
          THEN eventToDisplayEvent(evs[cursorIndex + 1])
          ELSE NoneEvent("")

getEventForSession(evs, cursorIndex, ans, s) ==
  LET Blocking(event) ==
        TruthyFlag(event.mandatory) /\ ~hasSessionAnswered(ans, s, event.id)
      unansweredMandatory ==
        SelectSeq(SubSeq(evs, 1, Min(cursorIndex, Len(evs))), Blocking)
  IN IF Len(unansweredMandatory) > 0
     THEN eventToDisplayEvent(unansweredMandatory[1])
     ELSE IF cursorIndex < Len(evs)
          THEN eventToDisplayEvent(evs[cursorIndex + 1])
          ELSE NoneEvent("")

\* Array.prototype.find(e => e.id === eventId), Null when nothing matches
FindEvent(evs, eventId) ==
  IF \E k \in 1..Len(evs) : evs[k].id = eventId
  THEN evs[CHOOSE k \in 1..Len(evs) :
             evs[k].id = eventId /\ \A j \in 1..(k - 1) : evs[j].id # eventId]
  ELSE Null

\* the expansion String.prototype.replace applies to a replacement string for
\* one match of a pattern without capture groups: $$ is a dollar sign, $& the
\* matched text, $' the text after the match (the form with a grave accent,
\* the text before the match, needs a character no input of the model holds)
RECURSIVE GetSubstitution(_, _, _)
GetSubstitution(replacement, before, after) ==
  IF replacement = <<>> THEN <<>>
  ELSE IF /\ Head(replacement) = "$" /\ Len(replacement) >= 2
          /\ replacement[2] \in {"$", "&", "'"}
       THEN (CASE replacement[2] = "$" -> <<"$">>
               [] replacement[2] = "&" -> <<AnswerToken>>
               [] OTHER -> after)
            \o GetSubstitution(SubSeq(replacement, 3, Len(replacement)), before, after)
       ELSE <<Head(replacement)>> \o GetSubstitution(Tail(replacement), before, after)

\* replace(new RegExp('{answer}', 'g'), replacement) from the i-th piece on
RECURSIVE ReplaceAll(_, _, _)
ReplaceAll(content, i, replacement) ==
  IF i > Len(content) THEN <<>>
  ELSE (IF content[i] = AnswerToken
        THEN GetSubstitution(replacement, SubSeq(content, 1, i - 1),
                             SubSeq(content, i + 1, Len(content)))
        ELSE <<content[i]>>)
       \o ReplaceAll(content, i + 1, replacement)

\* substituteVariables(content, { answer }): the replacement is String(answer)
substituteVariables(content, answer) == ReplaceAll(content, 1, String(answer))

\* scheduledTimeouts.set(id, ...) replaces the handle stored under the id:
\* a pending timer of the same id stays armed but is no longer in the map
Untrack(tm, id) ==
  [k \in 1..Len(tm) |->
     IF tm[k].event.id = id THEN [tm[k] EXCEPT !.tracked = FALSE] ELSE tm[k]]

\* scheduleEvent, with clock the value Date.now() returns inside it
scheduleEvent(tm, event, clock) ==
  LET delay == event.triggerAt - clock
  IN IF delay < 0 THEN tm
     ELSE Append(Untrack(tm, event.id),
                 [kind |-> "fire", event |-> event, due |-> event.triggerAt,
                  delay |-> delay, tracked |-> TRUE, stale |-> FALSE,
                  replaced |-> FALSE])

RECURSIVE scheduleAll(_, _, _)
scheduleAll(tm, evs, clock) ==
  IF evs = <<>> THEN tm
  ELSE scheduleAll(scheduleEvent(tm, Head(evs), clock), Tail(evs), clock)

\* a property name every object inherits from Object.prototype: its value is
\* a function of length 1, neither an array nor falsy
Constructor == <<"c", "o", "n", "s", "t", "r", "u", "c", "t", "o", "r">>

\* onAnswer[triggerKey] finds an inherited member instead of a list: the
\* length test passes and triggeredEvents.forEach is not a function
lookupThrows(event, triggerKey) ==
  /\ event.onAnswer.kind = "map"
  /\ \A k \in 1..Len(event.onAnswer.keys) : event.onAnswer.keys[k] # triggerKey
  /\ triggerKey = Constructor

\* the lists processAnswer selects under triggers.onAnswer
triggeredEvents(event, triggerKey) ==
  IF event.onAnswer.kind = "array" THEN event.onAnswer.list
  ELSE IF \E k \in 1..Len(event.onAnswer.keys) : event.onAnswer.keys[k] = triggerKey
       THEN event.onAnswer.lists[CHOOSE k \in 1..Len(event.onAnswer.keys) :
                                   event.onAnswer.keys[k] = triggerKey]
       ELSE <<>>

\* variant: the children are handed to scheduleEvent last-listed first
RECURSIVE injectAll_Reversed(_, _, _, _, _)
injectAll_Reversed(tm, children, answer, clock, late) ==
  IF children = <<>> THEN tm
  ELSE LET child == children[Len(children)]
           immediateEvent ==
             [child EXCEPT
                !.triggerAt = clock,
                !.content = substituteVariables(child.content, answer)]
       IN injectAll_Reversed(scheduleEvent(tm, immediateEvent,
                                           IF Head(late) THEN clock + 1 ELSE clock),
                             SubSeq(children, 1, Len(children) - 1), answer, clock,
                             Tail(late))

\* the forEach of processAnswer: late[k] tells whether the clock moved to the
\* next millisecond between new Date() and the Date.now() of scheduleEvent
RECURSIVE injectAll(_, _, _, _, _)
injectAll(tm, children, answer, clock, late) ==
  IF children = <<>> THEN tm
  ELSE LET immediateEvent ==
             [Head(children) EXCEPT
                !.triggerAt = clock,
                !.content = substituteVariables(Head(children).content, answer)]
       IN injectAll(scheduleEvent(tm, immediateEvent,
                                  IF Head(late) THEN clock + 1 ELSE clock),
                    Tail(children), answer, clock, Tail(late))

\* the child definitions processAnswer hands to scheduleEvent: none when the
\* event is unknown or has no triggers, or when the trigger key is falsy
selectTriggered(evs, eventId, answer) ==
  LET event == FindEvent(evs, eventId)
  IN IF event = Null \/ event.onAnswer = NoTriggers THEN <<>>
     ELSE LET triggerKey == evaluateAnswer(answer, event)
          IN IF triggerKey = <<>> THEN <<>>
             ELSE triggeredEvents(event, triggerKey)

\* processAnswer ends in an error thrown before any child is scheduled: the
\* SyntaxError of evaluateAnswer or the TypeError of the lookup
processAnswerThrows(evs, eventId, answer) ==
  LET event == FindEvent(evs, eventId)
  IN /\ event # Null
     /\ event.onAnswer # NoTriggers
     /\ \/ evaluateAnswerThrows(answer, event)
        \/ lookupThrows(event, evaluateAnswer(answer, event))

processAnswer(tm, evs, eventId, answer, clock, late) ==
  LET children == selectTriggered(evs, eventId, answer)
  IN injectAll(tm, children, answer, clock, SubSeq(late, 1, Len(children)))

\* ---------------------------------------------------------------- client
IDLE_POLL_INTERVAL == 2000

ACTIVE_POLL_INTERVAL == 1000

MIN_BACKOFF == 2000

MAX_BACKOFF == 30000

\* no fetchWithRetry call has been made and useServerPolling is not mounted:
\* the hook's state and refs (displayState, displayStateRef, errorRef), the
\* closure variable currentBackoff, the polls in flight, the position of the
\* polling loop and of submitAnswer, the acknowledgements to send; failures
\* counts the failed polls since the last successful one and newest is the
\* response of the latest-issued poll among those that have arrived
ClientIdle ==
  [pc |-> "idle", url |-> "", retryCount |-> 0, attempts |-> 0, errors |-> <<>>,
   delay |-> 0, value |-> <<>>, thrown |-> <<>>, calls |-> 0,
   displayState |-> Null, displayStateRef |-> Null, errorRef |-> FALSE,
   currentBackoff |-> MIN_BACKOFF, inflight |-> <<>>, issued |-> 0,
   loop |-> "off", wait |-> 0, submit |-> "none", submitted |-> "",
   posted |-> <<>>, ack |-> {}, failures |-> 0,
   newest |-> [seq |-> 0, body |-> Null]]

\* ------------------------------------------------------------------- init
AllIds == EventIds \cup {UnknownId}

\* what the last handler or timer callback reported: the HTTP response of a
\* request (status, duplicate flag, resolved view), or the timer that ran
Entry ==
  [op |-> "init", sid |-> "", eid |-> "", status |-> 0, duplicate |-> FALSE,
   view |-> Null, stale |-> FALSE, cancelled |-> 0, warned |-> FALSE,
   input |-> Null, key |-> <<>>, triggered |-> <<>>, replaced |-> FALSE,
   event |-> Null, again |-> FALSE]

Response(op, sid, eid, status, duplicate, view) ==
  [Entry EXCEPT !.op = op, !.sid = sid, !.eid = eid, !.status = status,
                !.duplicate = duplicate, !.view = view]

TimerRan(op, eid, stale) == [Entry EXCEPT !.op = op, !.eid = eid, !.stale = stale]

Init ==
  /\ events \in Timelines
  /\ now = 1
  /\ gameStartTime = <<>>
  /\ currentEvent = Null
  /\ timers = <<>>
  /\ sessions = {}
  /\ cursors = [s \in Sessions |-> <<>>]
  /\ answers = [s \in Sessions |-> [e \in AllIds |-> <<>>]]
  /\ requests = MaxRequests
  /\ last = Response("init", "", "", 0, FALSE, Null)
  /\ fired = {}
  /\ client = ClientIdle

\* ---------------------------------------------------------------- actions
\* every HTTP request reaches its handler through sessionMiddleware, which
\* finds or creates the caller's session row
Request(s) ==
  /\ requests > 0
  /\ requests' = requests - 1
  /\ sessions' = sessions \cup {s}

\* variant: the poll acknowledges the event it returns and moves the cursor
Poll_Advance(s) ==
  /\ Request(s)
  /\ LET eventForUser ==
           getEventForSession(events, getSessionCursor(cursors, s), answers, s)
     IN /\ last' = Response("poll", s, "", 200, FALSE, eventForUser)
        /\ cursors' = IF eventForUser.type = "none" THEN cursors
                      ELSE incrementSessionCursor(cursors, s)
  /\ UNCHANGED <<client, events, now, gameStartTime, currentEvent, timers, answers, fired>>

\* variant: while an event is on display the poll answers with the broadcast
\* slot instead of the session's own event
Poll_Broadcast(s) ==
  /\ Request(s)
  /\ LET eventForUser ==
           IF currentEvent # Null THEN currentEvent
           ELSE getEventForSession(events, getSessionCursor(cursors, s), answers, s)
     IN last' = Response("poll", s, "", 200, FALSE, eventForUser)
  /\ UNCHANGED <<client, events, now, gameStartTime, currentEvent, timers, cursors, answers,
                 fired>>

\* the handler of GET /api/current-event
PollHandler(s) ==
  /\ Request(s)
  /\ LET eventForUser ==
           getEventForSession(events, getSessionCursor(cursors, s), answers, s)
     IN last' = Response("poll", s, "", 200, FALSE, eventForUser)
  /\ UNCHANGED <<events, now, gameStartTime, currentEvent, timers, cursors, answers,
                 fired>>

\* GET /api/current-event, the state of the browser aside
Poll(s) == PollHandler(s) /\ UNCHANGED client

\* variant: the id of the event at the cursor is not compared
advanceCursor_NoIdCheck(cur, evs, s, eventId) ==
  LET cursorIndex == getSessionCursor(cur, s)
  IN IF cursorIndex < Len(evs)
     THEN incrementSessionCursor(cur, s)
     ELSE cur

\* variant: a catch-up answer moves the cursor to just after the answered event
advanceCursor_Rewind(cur, evs, s, eventId) ==
  LET cursorIndex == getSessionCursor(cur, s)
      Position(k) == evs[k].id = eventId
      found == {k \in 1..Len(evs) : Position(k)}
  IN IF cursorIndex < Len(evs) /\ evs[cursorIndex + 1].id = eventId
     THEN incrementSessionCursor(cur, s)
     ELSE IF found # {} THEN setSessionCursor(cur, s, CHOOSE k \in found : TRUE)
     ELSE cur

\* the cursor step of POST /api/answer: advance when the answered event is
\* the one at the session's cursor
advanceCursor(cur, evs, s, eventId) ==
  LET cursorIndex == getSessionCursor(cur, s)
  IN IF cursorIndex < Len(evs) /\ evs[cursorIndex + 1].id = eventId
     THEN incrementSessionCursor(cur, s)
     ELSE cur

\* the handler of POST /api/answer
SubmitHandler(s, eventId, answerOpt, late) ==
  /\ Request(s)
  /\ IF eventId = Missing \/ answerOpt = <<>>
     THEN /\ last' = Response("answer", s, eventId, 400, FALSE, Null)
          /\ UNCHANGED <<timers, cursors, answers>>
     ELSE LET answer == answerOpt[1]
              duplicate == hasSessionAnswered(answers, s, eventId)
              children == selectTriggered(events, eventId, answer)
          IN IF duplicate
             THEN /\ last' = [Response("answer", s, eventId, 200, TRUE, Null)
                                EXCEPT !.input = answer]
                  /\ UNCHANGED <<timers, cursors, answers>>
             ELSE /\ Len(answers[s][eventId]) < MaxRecords
                  /\ answers' = recordAnswer(answers, s, eventId, answer)
                  /\ IF processAnswerThrows(events, eventId, answer)
                     THEN /\ last' = [Response("answer", s, eventId, 500, FALSE, Null)
                                       EXCEPT !.input = answer]
                          /\ UNCHANGED <<timers, cursors>>
                     ELSE /\ timers' = processAnswer(timers, events, eventId, answer,
                                                     now, late)
                          /\ cursors' = advanceCursor(cursors, events, s, eventId)
                          /\ last' = [Response("answer", s, eventId, 200, FALSE, Null)
                                        EXCEPT !.input = answer,
                                               !.triggered =
                                                 [k \in 1..Len(children) |->
                                                    children[k].id]]
  /\ UNCHANGED <<events, now, gameStartTime, currentEvent, fired>>

\* POST /api/answer, the state of the browser aside
SubmitAnswer(s, eventId, answerOpt, late) ==
  SubmitHandler(s, eventId, answerOpt, late) /\ UNCHANGED client

\* variant: the guard on a game already started is dropped
startGame_Restart(gst, tm, evs, clock) ==
  [gameStartTime |-> <<clock>>, timers |-> scheduleAll(tm, evs, clock),
   warned |-> FALSE]

\* EventScheduler.startGame: warn and return when the game is started, else
\* take the start time and schedule every timeline event
startGame(gst, tm, evs, clock) ==
  IF gst # <<>>
  THEN [gameStartTime |-> gst, timers |-> tm, warned |-> TRUE]
  ELSE [gameStartTime |-> <<clock>>, timers |-> scheduleAll(tm, evs, clock),
        warned |-> FALSE]

\* POST /api/admin/start -> EventScheduler.startGame
AdminStart ==
  /\ requests > 0
  /\ requests' = requests - 1
  /\ LET started == startGame(gameStartTime, timers, events, now)
     IN /\ gameStartTime' = started.gameStartTime
        /\ timers' = started.timers
        /\ fired' = IF started.warned THEN fired ELSE {}
        /\ last' = [Response("start", "", "", 200, FALSE, Null)
                      EXCEPT !.warned = started.warned]
  /\ UNCHANGED <<client, events, now, currentEvent, sessions, cursors, answers>>

\* EventScheduler.reset: clearTimeout on every handle in scheduledTimeouts;
\* a timer that stays armed is marked as armed before a reset, and as one
\* whose event is no longer in the broadcast slot
reset(tm) ==
  LET Kept(t) == ~t.tracked
      kept == SelectSeq(tm, Kept)
  IN [k \in 1..Len(kept) |-> [kept[k] EXCEPT !.stale = TRUE, !.replaced = TRUE]]

\* the timers armed by startGame (their event is a timeline event) that a
\* reset finds in scheduledTimeouts and cancels
CancelledByReset(tm, evs) ==
  Cardinality({k \in 1..Len(tm) :
                 /\ tm[k].tracked
                 /\ \E j \in 1..Len(evs) : evs[j].id = tm[k].event.id})

\* POST /api/admin/reset -> EventScheduler.reset, GameDatabase.clearAllData
AdminReset ==
  /\ requests > 0
  /\ requests' = requests - 1
  /\ timers' = reset(timers)
  /\ gameStartTime' = <<>>
  /\ currentEvent' = Null
  /\ fired' = {}
  /\ sessions' = {}
  /\ cursors' = [s \in Sessions |-> <<>>]
  /\ answers' = [s \in Sessions |-> [e \in AllIds |-> <<>>]]
  /\ last' = [Response("reset", "", "", 200, FALSE, Null)
                EXCEPT !.cancelled = CancelledByReset(timers, events)]
  /\ UNCHANGED <<client, events, now>>

\* POST /api/admin/session/:sessionId/cursor ; eventIndexOpt is <<>> when the
\* body carries no number. The cursor row references sessions(id): the
\* upsert fails for a session id that has no session row
AdminSetCursor(s, eventIndexOpt) ==
  /\ requests > 0
  /\ requests' = requests - 1
  /\ IF eventIndexOpt = <<>>
     THEN /\ last' = [Response("cursor", s, "", 400, FALSE, Null)
                       EXCEPT !.input = eventIndexOpt]
          /\ UNCHANGED cursors
     ELSE IF eventIndexOpt[1] < 0 \/ eventIndexOpt[1] > Len(events)
     THEN /\ last' = [Response("cursor", s, "", 400, FALSE, Null)
                       EXCEPT !.input = eventIndexOpt]
          /\ UNCHANGED cursors
     ELSE IF s \notin sessions
     THEN /\ last' = [Response("cursor", s, "", 500, FALSE, Null)
                       EXCEPT !.input = eventIndexOpt]
          /\ UNCHANGED cursors
     ELSE /\ cursors' = setSessionCursor(cursors, s, eventIndexOpt[1])
          /\ last' = [Response("cursor", s, "", 200, FALSE, Null)
                        EXCEPT !.input = eventIndexOpt]
  /\ UNCHANGED <<client, events, now, gameStartTime, currentEvent, timers, sessions,
                 answers, fired>>

\* removal of the k-th pending timer
Remove(tm, k) == SubSeq(tm, 1, k - 1) \o SubSeq(tm, k + 1, Len(tm))

\* the timer the event loop runs next: due, none due earlier, and first among
\* the timers armed with the same delay for the same instant
Runnable(k) ==
  /\ timers[k].due <= now
  /\ \A j \in 1..Len(timers) : timers[j].due >= timers[k].due
  /\ \A j \in 1..(k - 1) :
       ~(timers[j].due = timers[k].due /\ timers[j].delay = timers[k].delay)

\* every pending auto-hide timer belongs to a firing whose event the slot has
\* stopped holding: another firing has replaced it
Replaced(tm) ==
  [k \in 1..Len(tm) |->
     IF tm[k].kind = "hide" THEN [tm[k] EXCEPT !.replaced = TRUE] ELSE tm[k]]

\* the callback armed by scheduleEvent: triggerEvent, then
\* scheduledTimeouts.delete(event.id)
TimerFires(k) ==
  /\ k \in 1..Len(timers)
  /\ timers[k].kind = "fire"
  /\ Runnable(k)
  /\ LET t == timers[k]
         rest == Replaced(Untrack(Remove(timers, k), t.event.id))
     IN /\ currentEvent' = eventToDisplayEvent(t.event)
        /\ timers' =
             IF TruthyNumber(t.event.duration)
             THEN Append(rest, [kind |-> "hide", event |-> t.event,
                                due |-> now + t.event.duration[1],
                                delay |-> t.event.duration[1],
                                tracked |-> FALSE, stale |-> FALSE,
                                replaced |-> FALSE])
             ELSE rest
        /\ last' = [TimerRan("fire", t.event.id, t.stale)
                      EXCEPT !.event = t.event, !.again = t.event \in fired]
        /\ fired' = IF /\ gameStartTime # <<>>
                       /\ \E j \in 1..Len(events) : events[j] = t.event
                    THEN fired \cup {t.event} ELSE fired
  /\ UNCHANGED <<client, events, now, gameStartTime, sessions, cursors, answers, requests>>

\* the auto-hide callback armed by triggerEvent
AutoHide(k) ==
  /\ k \in 1..Len(timers)
  /\ timers[k].kind = "hide"
  /\ Runnable(k)
  /\ LET t == timers[k]
     IN /\ currentEvent' =
             IF currentEvent # Null /\ currentEvent.eventId = t.event.id
             THEN NoneEvent(t.event.id)
             ELSE currentEvent
        /\ timers' = Remove(timers, k)
        /\ last' = [TimerRan("hide", t.event.id, t.stale)
                      EXCEPT !.replaced = t.replaced]
  /\ UNCHANGED <<client, events, now, gameStartTime, sessions, cursors, answers, requests,
                 fired>>

\* the clock advances once every due timer has run
Tick ==
  /\ now < MaxTime
  /\ \A k \in 1..Len(timers) : timers[k].due > now
  /\ now' = now + 1
  /\ UNCHANGED <<client, events, gameStartTime, currentEvent, timers,
                 sessions, cursors, answers, requests, last, fired>>

MaxChildren == 2

Lates == [1..MaxChildren -> BOOLEAN]

\* the clock readings that matter to a submission: one per child it injects
LatesFor(eventId, answerOpt) ==
  LET n == IF answerOpt = <<>> THEN 0
           ELSE Len(selectTriggered(events, eventId, answerOpt[1]))
  IN {late \in Lates : \A k \in (n + 1)..MaxChildren : ~late[k]}

AnswerInputs == {<<>>} \cup {<<Str(a)>> : a \in Answers}

IndexInputs == {<<>>} \cup {<<i>> : i \in (0 - 1)..(MaxEvents + 1)}

Next ==
  \/ \E s \in Sessions : Poll(s)
  \/ \E s \in Sessions, eventId \in AllIds \cup {Missing}, answerOpt \in AnswerInputs :
       \E late \in LatesFor(eventId, answerOpt) :
         SubmitAnswer(s, eventId, answerOpt, late)
  \/ AdminStart
  \/ AdminReset
  \/ \E s \in Sessions, eventIndexOpt \in IndexInputs : AdminSetCursor(s, eventIndexOpt)
  \/ \E k \in 1..Len(timers) : TimerFires(k)
  \/ \E k \in 1..Len(timers) : AutoHide(k)
  \/ Tick

Spec == Init /\ [][Next]_vars

\* the scheduler under one full-length timeline, with a longer run of requests
InitSched ==
  /\ events = [i \in 1..MaxEvents |-> Catalog(i, <<>>)]
  /\ now = 1
  /\ gameStartTime = <<>>
  /\ currentEvent = Null
  /\ timers = <<>>
  /\ sessions = {}
  /\ cursors = [s \in Sessions |-> <<>>]
  /\ answers = [s \in Sessions |-> [e \in AllIds |-> <<>>]]
  /\ requests = MaxSchedRequests
  /\ last = Response("init", "", "", 0, FALSE, Null)
  /\ fired = {}
  /\ client = ClientIdle

SpecSched == InitSched /\ [][Next]_vars

\* ----------------------------------------- the answer evaluator on its own
MaxEvalRequests == 1

Yes == <<" ", "Y", "e", "s", " ">>

EvalTypes == {"text", "question", "multiple_choice", "custom_component"}

\* ValidationRule of types.ts: exact, regex and custom rules, or none
EvalValidations ==
  {NoValidation,
   [type |-> "exact", correctAnswers |-> <<Five>>],
   [type |-> "exact", correctAnswers |-> <<No, Yes>>],
   [type |-> "regex", pattern |-> <<"e", "s">>],
   [type |-> "custom", customValidator |-> "validator"]}

\* triggers.onAnswer of types.ts: absent, an array, or a keyed object
EvalTriggers ==
  {NoTriggers,
   [kind |-> "array", list |-> <<OkChild, NiceChild>>],
   [kind |-> "map", keys |-> <<Correct, No>>,
    lists |-> <<(<<NiceChild>>), (<<OkChild>>)>>]}

\* one-event timelines over every kind, validation rule and trigger shape
EvalEvents ==
  {EventConfig(IdPool[1], type, <<"Q">>, 1, <<>>, <<>>, validation, onAnswer) :
     type \in EvalTypes, validation \in EvalValidations, onAnswer \in EvalTriggers}

\* answers of a JSON request body
EvalAnswers ==
  {Str(<<>>), Str(<<" ", "5", " ">>), Str(Five), Str(No), Str(<<"Y", "E", "S">>),
   Str(<<"$", "&">>), Str(<<AnswerToken>>), Str(Constructor),
   Num(5), Num(42), Bool(TRUE), JsNull,
   Arr(<<(<<"a">>), (<<"b">>)>>), Obj(<<"k">>, <<"a">>)}

\* the one participant who submits
EvalSession == "s1"

\* a direct call of evaluateAnswer on the loaded event
Evaluate(answer) ==
  /\ requests > 0
  /\ requests' = requests - 1
  /\ last' = [Entry EXCEPT !.op = "evaluate", !.input = answer,
                           !.key = <<evaluateAnswer(answer, events[1])>>]
  /\ UNCHANGED <<client, events, now, gameStartTime, currentEvent, timers,
                 sessions, cursors, answers, fired>>

InitEval ==
  /\ events \in {<<event>> : event \in EvalEvents}
  /\ now = 1
  /\ gameStartTime = <<>>
  /\ currentEvent = Null
  /\ timers = <<>>
  /\ sessions = {}
  /\ cursors = [s \in Sessions |-> <<>>]
  /\ answers = [s \in Sessions |-> [e \in AllIds |-> <<>>]]
  /\ requests = MaxEvalRequests
  /\ last = Response("init", "", "", 0, FALSE, Null)
  /\ fired = {}
  /\ client = ClientIdle

NextEval ==
  \/ \E answer \in EvalAnswers : Evaluate(answer)
  \/ Poll(EvalSession)
  \/ \E answer \in EvalAnswers :
       \E late \in LatesFor(events[1].id, <<answer>>) :
         SubmitAnswer(EvalSession, events[1].id, <<answer>>, late)
  \/ \E k \in 1..Len(timers) : TimerFires(k)
  \/ \E k \in 1..Len(timers) : AutoHide(k)
  \/ Tick

SpecEval == InitEval /\ [][NextEval]_vars

\* ------------------------------------------------- loading of timelines
MaxLoadRequests == 4

\* two definitions that share an id
FirstTwin ==
  EventConfig(IdPool[1], "text", <<"First">>, 2, <<>>, <<>>, NoValidation, NoTriggers)

SecondTwin ==
  EventConfig(IdPool[1], "text", <<"Second">>, 2, <<>>, <<>>, NoValidation, NoTriggers)

\* a definition without a type
Untyped ==
  EventConfig(IdPool[2], Missing, <<"Untyped">>, 2, <<>>, <<>>, NoValidation, NoTriggers)

\* the configurations handed to loadEvents
LoadInputs ==
  {<<>>,
   <<Catalog(1, <<>>)>>,
   [i \in 1..MaxEvents |-> Catalog(i, <<>>)],
   <<FirstTwin, SecondTwin>>,
   <<Catalog(1, <<>>), Untyped>>}

\* EventScheduler.loadEvents: this.events = config.events
LoadEvents(config) ==
  /\ requests > 0
  /\ requests' = requests - 1
  /\ events' = config
  /\ last' = Response("load", "", "", 200, FALSE, Null)
  /\ UNCHANGED <<client, now, gameStartTime, currentEvent, timers,
                 sessions, cursors, answers, fired>>

\* the scheduler as constructed: no events loaded
InitLoad ==
  /\ events = <<>>
  /\ now = 1
  /\ gameStartTime = <<>>
  /\ currentEvent = Null
  /\ timers = <<>>
  /\ sessions = {}
  /\ cursors = [s \in Sessions |-> <<>>]
  /\ answers = [s \in Sessions |-> [e \in AllIds |-> <<>>]]
  /\ requests = MaxLoadRequests
  /\ last = Response("init", "", "", 0, FALSE, Null)
  /\ fired = {}
  /\ client = ClientIdle

NextLoad ==
  \/ \E config \in LoadInputs : LoadEvents(config)
  \/ AdminStart
  \/ AdminReset
  \/ \E k \in 1..Len(timers) : TimerFires(k)
  \/ \E k \in 1..Len(timers) : AutoHide(k)
  \/ Tick

SpecLoad == InitLoad /\ [][NextLoad]_vars

\* ------------------------------------- participants only: no admin request
NextPlay ==
  \/ \E s \in Sessions : Poll(s)
  \/ \E s \in Sessions, eventId \in AllIds \cup {Missing}, answerOpt \in AnswerInputs :
       \E late \in LatesFor(eventId, answerOpt) :
         SubmitAnswer(s, eventId, answerOpt, late)
  \/ \E k \in 1..Len(timers) : TimerFires(k)
  \/ \E k \in 1..Len(timers) : AutoHide(k)
  \/ Tick

SpecPlay == Init /\ [][NextPlay]_vars

\* ------------------------------------------- branches of several children
MaxBranchRequests == 2

\* triggers.onAnswer listing two children, as an array and under a key
BranchTriggers ==
  {[kind |-> "array", list |-> <<OkChild, NiceChild>>],
   [kind |-> "map", keys |-> <<No>>, lists |-> <<(<<NiceChild, OkChild>>)>>]}

\* no rule, or a regex rule whose pattern does not compile
BranchValidations == {NoValidation, [type |-> "regex", pattern |-> <<"(">>]}

\* one-event timelines whose event injects two children
BranchEvents ==
  {EventConfig(IdPool[1], "question", <<"Q">>, 1, <<>>, <<>>, validation, onAnswer) :
     validation \in BranchValidations, onAnswer \in BranchTriggers}

BranchAnswers == {Str(No), Str(Five)}

InitBranch ==
  /\ events \in {<<event>> : event \in BranchEvents}
  /\ now = 1
  /\ gameStartTime = <<>>
  /\ currentEvent = Null
  /\ timers = <<>>
  /\ sessions = {}
  /\ cursors = [s \in Sessions |-> <<>>]
  /\ answers = [s \in Sessions |-> [e \in AllIds |-> <<>>]]
  /\ requests = MaxBranchRequests
  /\ last = Response("init", "", "", 0, FALSE, Null)
  /\ fired = {}
  /\ client = ClientIdle

NextBranch ==
  \/ \E s \in Sessions, answer \in BranchAnswers :
       \E late \in LatesFor(events[1].id, <<answer>>) :
         SubmitAnswer(s, events[1].id, <<answer>>, late)
  \/ \E k \in 1..Len(timers) : TimerFires(k)
  \/ \E k \in 1..Len(timers) : AutoHide(k)
  \/ Tick

SpecBranch == InitBranch /\ [][NextBranch]_vars

\* --------------------------------------- the client's fetchWithRetry call
MaxCalls == 2

MAX_RETRIES == 3

INITIAL_RETRY_DELAY == 1000

MAX_RETRY_DELAY == 30000

RECURSIVE Pow2(_)
Pow2(n) == IF n = 0 THEN 1 ELSE 2 * Pow2(n - 1)

\* getRetryDelay: exponential backoff with a ceiling
getRetryDelay(attempt) == Min(INITIAL_RETRY_DELAY * Pow2(attempt), MAX_RETRY_DELAY)

\* the requests of the API client that go through fetchWithRetry
Urls == {"/current-event", "/answer"}

\* how one fetch settles: a parsed body, or the error the try block throws
\* (fetch rejects, the status is not ok, response.json() rejects)
Outcomes == {"ok", "network", "http", "json"}

\* variant: one more retry is made before the error is thrown
Exhausted_Late(retryCount) == retryCount > MAX_RETRIES

\* the test of the catch block: no retry is left
Exhausted(retryCount) == retryCount >= MAX_RETRIES

\* a caller invokes fetchWithRetry(url, options): retryCount takes its default
FetchCall(url) ==
  /\ client.pc \in {"idle", "resolved", "rejected"}
  /\ client.calls < MaxCalls
  /\ client' = [ClientIdle EXCEPT !.pc = "fetching", !.url = url,
                                  !.calls = client.calls + 1]
  /\ UNCHANGED <<events, now, gameStartTime, currentEvent, timers,
                 sessions, cursors, answers, requests, last, fired>>

\* the awaited fetch settles: the body is returned, or the catch block runs
\* and either throws the error or starts the sleep before the next attempt
FetchSettles(outcome) ==
  /\ client.pc = "fetching"
  /\ LET attempt == client.attempts + 1
     IN client' =
          IF outcome = "ok"
          THEN [client EXCEPT !.pc = "resolved", !.attempts = attempt,
                              !.value = <<attempt>>]
          ELSE LET error == [attempt |-> attempt, cause |-> outcome]
               IN IF Exhausted(client.retryCount)
                  THEN [client EXCEPT !.pc = "rejected", !.attempts = attempt,
                                      !.errors = Append(@, error),
                                      !.thrown = <<error>>]
                  ELSE [client EXCEPT !.pc = "sleeping", !.attempts = attempt,
                                      !.errors = Append(@, error),
                                      !.delay = getRetryDelay(client.retryCount)]
  /\ UNCHANGED <<events, now, gameStartTime, currentEvent, timers,
                 sessions, cursors, answers, requests, last, fired>>

\* the sleep ends and fetchWithRetry calls itself with retryCount + 1
FetchWakes ==
  /\ client.pc = "sleeping"
  /\ client' = [client EXCEPT !.pc = "fetching", !.retryCount = @ + 1]
  /\ UNCHANGED <<events, now, gameStartTime, currentEvent, timers,
                 sessions, cursors, answers, requests, last, fired>>

\* the client on its own, the server as constructed
InitFetch ==
  /\ events = <<>>
  /\ now = 1
  /\ gameStartTime = <<>>
  /\ currentEvent = Null
  /\ timers = <<>>
  /\ sessions = {}
  /\ cursors = [s \in Sessions |-> <<>>]
  /\ answers = [s \in Sessions |-> [e \in AllIds |-> <<>>]]
  /\ requests = 0
  /\ last = Response("init", "", "", 0, FALSE, Null)
  /\ fired = {}
  /\ client = ClientIdle

NextFetch ==
  \/ \E url \in Urls : FetchCall(url)
  \/ \E outcome \in Outcomes : FetchSettles(outcome)
  \/ FetchWakes

\* every fetch settles (the browser ends a request with a response or an
\* error) and every setTimeout of sleep runs
SpecFetch ==
  /\ InitFetch /\ [][NextFetch]_vars
  /\ WF_vars(\E outcome \in Outcomes : FetchSettles(outcome))
  /\ WF_vars(FetchWakes)

\* --------------------------------------- the client's useServerPolling hook
MaxHookRequests == 4

MaxHookFailures == 5

\* the participant whose browser runs the hook
HookSession == "s1"

HookQuestion(i) ==
  EventConfig(IdPool[i], "question", <<"2+3?">>, i, <<>>, <<>>, NoValidation, NoTriggers)

\* timelines of one question, and of a text event followed by a question
HookTimelines == {<<HookQuestion(1)>>, <<Catalog(1, <<>>), HookQuestion(2)>>}

HookAnswers == {Str(No)}

\* getAnswerCount: the answers of all sessions for the event
RECURSIVE getAnswerCount(_, _, _)
getAnswerCount(ans, among, eventId) ==
  IF among = {} THEN 0
  ELSE LET s == CHOOSE t \in among : TRUE
       IN Len(ans[s][eventId]) + getAnswerCount(ans, among \ {s}, eventId)

\* the body GET /current-event sends: { type: 'none' } for the none view,
\* else the view with hasAnswered and answerCount added
PollResponse(eventForUser, ans, s) ==
  IF eventForUser.type = "none" THEN [type |-> "none"]
  ELSE [f \in DOMAIN eventForUser \cup {"hasAnswered", "answerCount"} |->
          CASE f = "hasAnswered" -> hasSessionAnswered(ans, s, eventForUser.eventId)
            [] f = "answerCount" -> getAnswerCount(ans, Sessions, eventForUser.eventId)
            [] OTHER -> eventForUser[f]]

\* event.eventId, undefined when the body has no such member
EventIdOf(event) == IF "eventId" \in DOMAIN event THEN event.eventId ELSE Missing

\* hasEventChanged of poll
hasEventChanged(shown, event) ==
  \/ shown = Null
  \/ EventIdOf(shown) # EventIdOf(event)
  \/ shown.type # event.type

\* scheduleNext: the interval of the next setTimeout
actualInterval(c) ==
  LET hasActiveEvent == c.displayStateRef # Null /\ c.displayStateRef.type # "none"
      pollInterval == IF hasActiveEvent THEN ACTIVE_POLL_INTERVAL ELSE IDLE_POLL_INTERVAL
  IN IF c.errorRef THEN c.currentBackoff ELSE pollInterval

\* poll() is called: a request for the current event is in flight
Issue(c, origin) ==
  [c EXCEPT !.issued = @ + 1,
            !.inflight = Append(@, [seq |-> c.issued + 1, origin |-> origin,
                                    served |-> FALSE, body |-> Null])]

\* what follows the end of the i-th poll in flight: the polling loop calls
\* scheduleNext, submitAnswer returns
Continue(c, i) ==
  LET rest == [c EXCEPT !.inflight = Remove(@, i)]
  IN IF c.inflight[i].origin = "loop"
     THEN [rest EXCEPT !.loop = "waiting", !.wait = actualInterval(rest)]
     ELSE [rest EXCEPT !.submit = "none"]

\* the try block of poll after the awaited getCurrentEvent returned event;
\* the effect on displayState posts an acknowledgement for a text event
Succeeded(c, i) ==
  LET event == c.inflight[i].body
      changed == hasEventChanged(c.displayStateRef, event)
      acknowledge == changed /\ event.type = "text" /\ ~event.hasAnswered
  IN [c EXCEPT !.displayState = IF changed THEN event ELSE @,
               !.displayStateRef = event,
               !.errorRef = FALSE,
               !.currentBackoff = MIN_BACKOFF,
               !.failures = 0,
               !.ack = IF acknowledge THEN @ \cup {event.eventId} ELSE @,
               !.newest = IF c.inflight[i].seq > @.seq
                          THEN [seq |-> c.inflight[i].seq, body |-> event] ELSE @]

\* the catch block of poll
Failed(c) ==
  [c EXCEPT !.errorRef = TRUE,
            !.currentBackoff = Min(@ * 2, MAX_BACKOFF),
            !.failures = @ + 1]

\* the frame of a step of the browser alone
ServerUnchanged ==
  UNCHANGED <<events, now, gameStartTime, currentEvent, timers,
              sessions, cursors, answers, requests, last, fired>>

\* the polling effect runs on mount: poll().then(() => scheduleNext())
HookMount ==
  /\ client.loop = "off"
  /\ client' = [Issue(client, "loop") EXCEPT !.loop = "polling"]
  /\ ServerUnchanged

\* the timer of scheduleNext runs: await poll()
HookTimer ==
  /\ client.loop = "waiting"
  /\ client' = [Issue(client, "loop") EXCEPT !.loop = "polling"]
  /\ ServerUnchanged

\* the server handles the i-th poll in flight
ServePoll(i) ==
  /\ i \in 1..Len(client.inflight)
  /\ ~client.inflight[i].served
  /\ PollHandler(HookSession)
  /\ client' = [client EXCEPT
                  !.inflight[i].served = TRUE,
                  !.inflight[i].body = PollResponse(last'.view, answers, HookSession)]

\* the response of a served poll arrives, in whatever order the network
\* and the retries of fetchWithRetry deliver the responses
PollArrives(i) ==
  /\ i \in 1..Len(client.inflight)
  /\ client.inflight[i].served
  /\ client' = Continue(Succeeded(client, i), i)
  /\ ServerUnchanged

\* getCurrentEvent rejects: the request or its response was lost for good
PollFails(i) ==
  /\ i \in 1..Len(client.inflight)
  /\ client.failures < MaxHookFailures
  /\ client' = Continue(Failed(client), i)
  /\ ServerUnchanged

\* the participant submits an answer for the displayed event
HookSubmit(answer) ==
  /\ client.submit = "none"
  /\ client.displayState # Null
  /\ EventIdOf(client.displayState) \notin {Missing, ""}
  /\ client' = [client EXCEPT !.submit = "posting",
                              !.submitted = client.displayState.eventId,
                              !.posted = <<answer>>]
  /\ ServerUnchanged

\* the server handles the submission
ServeSubmit(late) ==
  /\ client.submit = "posting"
  /\ SubmitHandler(HookSession, client.submitted, client.posted, late)
  /\ client' = [client EXCEPT !.submit = "served"]

\* apiSubmitAnswer returned: await pollRef.current()
SubmitArrives ==
  /\ client.submit = "served"
  /\ client' = [Issue(client, "submit") EXCEPT !.submit = "polling"]
  /\ ServerUnchanged

\* apiSubmitAnswer rejects and submitAnswer rethrows
SubmitFails ==
  /\ client.submit \in {"posting", "served"}
  /\ client' = [client EXCEPT !.submit = "none"]
  /\ ServerUnchanged

\* the server handles the acknowledgement of a text event
ServeAcknowledge(eventId, late) ==
  /\ eventId \in client.ack
  /\ SubmitHandler(HookSession, eventId, <<Flag(<<"acknowledged">>, TRUE)>>, late)
  /\ client' = [client EXCEPT !.ack = @ \ {eventId}]

InitHook ==
  /\ events \in HookTimelines
  /\ now = 1
  /\ gameStartTime = <<>>
  /\ currentEvent = Null
  /\ timers = <<>>
  /\ sessions = {}
  /\ cursors = [s \in Sessions |-> <<>>]
  /\ answers = [s \in Sessions |-> [e \in AllIds |-> <<>>]]
  /\ requests = MaxHookRequests
  /\ last = Response("init", "", "", 0, FALSE, Null)
  /\ fired = {}
  /\ client = ClientIdle

NextHook ==
  \/ HookMount
  \/ HookTimer
  \/ \E i \in 1..Len(client.inflight) : ServePoll(i)
  \/ \E i \in 1..Len(client.inflight) : PollArrives(i)
  \/ \E i \in 1..Len(client.inflight) : PollFails(i)
  \/ \E answer \in HookAnswers : HookSubmit(answer)
  \/ \E late \in LatesFor(client.submitted, client.posted) : ServeSubmit(late)
  \/ SubmitArrives
  \/ SubmitFails
  \/ \E eventId \in client.ack :
       \E late \in LatesFor(eventId, <<Flag(<<"acknowledged">>, TRUE)>>) :
         ServeAcknowledge(eventId, late)

SpecHook == InitHook /\ [][NextHook]_vars

\* ------------------------------------- test event files (relative times)
MaxTestRequests == 2

\* the time strings of the test files: the relative times of the format,
\* and two strings that are none (no sign, a unit in upper case)
RelativeTimes ==
  [now |-> <<"n", "o", "w">>,
   plus0s |-> <<"+", "0", "s">>,
   plus1s |-> <<"+", "1", "s">>,
   plus2s |-> <<"+", "2", "s">>,
   plus60s |-> <<"+", "6", "0", "s">>,
   plus1m |-> <<"+", "1", "m">>,
   bare1s |-> <<"1", "s">>,
   plus1S |-> <<"+", "1", "S">>]

IsDigit(c) == \E d \in 0..9 : DigitChar(d) = c

DigitValue(c) == CHOOSE d \in 0..9 : DigitChar(d) = c

\* parseInt(digits, 10) of a string of decimal digits
RECURSIVE parseInt(_)
parseInt(digits) ==
  IF digits = <<>> THEN 0
  ELSE parseInt(SubSeq(digits, 1, Len(digits) - 1)) * 10
       + DigitValue(digits[Len(digits)])

\* timeStr.match(/^\+(\d+)([sm])$/)
MatchesRelative(timeStr) ==
  /\ Len(timeStr) >= 3
  /\ timeStr[1] = "+"
  /\ \A i \in 2..(Len(timeStr) - 1) : IsDigit(timeStr[i])
  /\ timeStr[Len(timeStr)] \in {"s", "m"}

\* parseRelativeTime: the offset in milliseconds, or an Error thrown
parseRelativeTime(timeStr) ==
  IF timeStr = RelativeTimes.now THEN [thrown |-> FALSE, value |-> 0]
  ELSE IF ~MatchesRelative(timeStr) THEN [thrown |-> TRUE, value |-> 0]
  ELSE LET value == parseInt(SubSeq(timeStr, 2, Len(timeStr) - 1))
           unit == timeStr[Len(timeStr)]
       IN IF unit = "s" THEN [thrown |-> FALSE, value |-> value * 1000]
          ELSE [thrown |-> FALSE, value |-> value * 60 * 1000]

\* an entry of TestEventConfig.events; endTime and duration are optional
TestEvent(id, startTime, endTime, duration) ==
  [id |-> id, type |-> "text", content |-> <<"Test">>, startTime |-> startTime,
   endTime |-> endTime, duration |-> duration]

\* variant: an endTime equal to the startTime is let through
processEvent_AllowEqual(event, serverStartTime) ==
  LET start == parseRelativeTime(event.startTime)
      startTime == serverStartTime + start.value
      given == event.endTime # <<>> /\ event.endTime[1] # <<>>
      end == IF given THEN parseRelativeTime(event.endTime[1])
             ELSE [thrown |-> FALSE, value |-> 0]
      endTime == serverStartTime + end.value
  IN IF start.thrown \/ end.thrown \/ (given /\ endTime < startTime)
     THEN [thrown |-> TRUE, event |-> Null]
     ELSE [thrown |-> FALSE,
           event |-> EventConfig(event.id, event.type, event.content, startTime,
                                 IF given THEN <<endTime - startTime>> ELSE <<>>,
                                 <<>>, NoValidation, NoTriggers)]

\* the callback of config.events.map in processTestConfig: if (event.endTime)
\* is false for a missing endTime and for the empty string; the duration of
\* the test event is not copied; triggerAt is the instant that
\* new Date(startTime).toISOString() denotes
processEvent(event, serverStartTime) ==
  LET start == parseRelativeTime(event.startTime)
      startTime == serverStartTime + start.value
      given == event.endTime # <<>> /\ event.endTime[1] # <<>>
      end == IF given THEN parseRelativeTime(event.endTime[1])
             ELSE [thrown |-> FALSE, value |-> 0]
      endTime == serverStartTime + end.value
  IN IF start.thrown \/ end.thrown \/ (given /\ endTime <= startTime)
     THEN [thrown |-> TRUE, event |-> Null]
     ELSE [thrown |-> FALSE,
           event |-> EventConfig(event.id, event.type, event.content, startTime,
                                 IF given THEN <<endTime - startTime>> ELSE <<>>,
                                 <<>>, NoValidation, NoTriggers)]

\* processTestConfig: an Error thrown by the callback ends the map
processTestConfig(config, serverStartTime) ==
  LET processed == [i \in 1..Len(config) |-> processEvent(config[i], serverStartTime)]
  IN IF \E i \in 1..Len(config) : processed[i].thrown
     THEN [thrown |-> TRUE, events |-> <<>>]
     ELSE [thrown |-> FALSE,
           events |-> [i \in 1..Len(config) |-> processed[i].event]]

StartTimes == {RelativeTimes.now, RelativeTimes.plus1s, RelativeTimes.plus1m, RelativeTimes.bare1s}

EndTimes ==
  {<<>>, <<(<<>>)>>, <<RelativeTimes.now>>, <<RelativeTimes.plus0s>>, <<RelativeTimes.plus1s>>, <<RelativeTimes.plus2s>>, <<RelativeTimes.plus60s>>,
   <<RelativeTimes.plus1m>>, <<RelativeTimes.bare1s>>, <<RelativeTimes.plus1S>>}

\* the test files: one event, or a first event followed by a second one
TestConfigs ==
  {<<TestEvent(IdPool[1], startTime, endTime, duration)>> :
     startTime \in StartTimes, endTime \in EndTimes, duration \in {<<>>, <<5>>}}
  \cup
  {<<TestEvent(IdPool[1], RelativeTimes.now, endTime, <<>>),
     TestEvent(IdPool[2], RelativeTimes.plus1s, other, <<5>>)>> :
     endTime \in {<<>>, <<RelativeTimes.plus1s>>, <<RelativeTimes.plus2s>>},
     other \in {<<>>, <<(<<>>)>>, <<RelativeTimes.plus1s>>, <<RelativeTimes.plus2s>>}}

\* loadTestEventFile at startup: processTestConfig(testConfig, Date.now());
\* the processed events are the timeline of the scheduler, an Error ends
\* the load
LoadTestEvents(config) ==
  /\ last.op = "init"
  /\ LET processed == processTestConfig(config, now)
     IN /\ events' = IF processed.thrown THEN events ELSE processed.events
        /\ last' = [Response("loadTest", "", "",
                             IF processed.thrown THEN 500 ELSE 200, FALSE, Null)
                      EXCEPT !.input = config]
  /\ UNCHANGED <<client, now, gameStartTime, currentEvent, timers,
                 sessions, cursors, answers, requests, fired>>

\* the clock reaches the instant of the next pending timer
Advance ==
  /\ timers # <<>>
  /\ \A k \in 1..Len(timers) : timers[k].due > now
  /\ \E k \in 1..Len(timers) :
       /\ \A j \in 1..Len(timers) : timers[j].due >= timers[k].due
       /\ now' = timers[k].due
  /\ UNCHANGED <<client, events, gameStartTime, currentEvent, timers,
                 sessions, cursors, answers, requests, last, fired>>

InitTest ==
  /\ events = <<>>
  /\ now = 1
  /\ gameStartTime = <<>>
  /\ currentEvent = Null
  /\ timers = <<>>
  /\ sessions = {}
  /\ cursors = [s \in Sessions |-> <<>>]
  /\ answers = [s \in Sessions |-> [e \in AllIds |-> <<>>]]
  /\ requests = MaxTestRequests
  /\ last = Response("init", "", "", 0, FALSE, Null)
  /\ fired = {}
  /\ client = ClientIdle

NextTest ==
  \/ \E config \in TestConfigs : LoadTestEvents(config)
  \/ AdminStart
  \/ \E k \in 1..Len(timers) : TimerFires(k)
  \/ \E k \in 1..Len(timers) : AutoHide(k)
  \/ Advance

SpecTest == InitTest /\ [][NextTest]_vars

\* ------------------------------------------------- vocabulary of the claims
\* the session's cursor as getSessionCursor reads it, before and after a step
CursorOf(s) == getSessionCursor(cursors, s)

CursorAfter(s) == getSessionCursor(cursors', s)

\* what GET /api/current-event resolves for the session in the current state
ViewOf(s) == getEventForSession(events, CursorOf(s), answers, s)

ViewAfter(s) == getEventForSession(events', CursorAfter(s), answers', s)

\* positions below the session's cursor holding a mandatory event the session
\* has no answer record for
Gate(s) ==
  {p \in 0..(CursorOf(s) - 1) :
     /\ p < Len(events)
     /\ events[p + 1].mandatory = <<TRUE>>
     /\ answers[s][events[p + 1].id] = <<>>}

Least(P) == CHOOSE p \in P : \A q \in P : p <= q

\* the step is the handling of one HTTP request of the given kind
RequestStep(op) == requests' = requests - 1 /\ last'.op = op

\* the step is the run of one timer callback
TimerStep == requests' = requests /\ timers' # timers

\* the answered event id lies at the session's cursor position
AtCursor(s, eventId) ==
  CursorOf(s) < Len(events) /\ events[CursorOf(s) + 1].id = eventId

\* ---------------------------------------------------------------------- C1
\* C1: whenever some position below a session's cursor holds a mandatory
\* event the session has not answered, resolve returns the view of the event
\* at the smallest such position, and not the event at the cursor.
C1_FirstUnansweredMandatory ==
  \A s \in Sessions :
    Gate(s) # {} =>
      /\ ViewOf(s) = eventToDisplayEvent(events[Least(Gate(s)) + 1])
      /\ CursorOf(s) < Len(events) =>
           ViewOf(s) # eventToDisplayEvent(events[CursorOf(s) + 1])

\* a poll answered with the first of two unanswered mandatory events
C1_Witness ==
  /\ last.op = "poll"
  /\ Cardinality(Gate(last.sid)) >= 2
  /\ last.view = eventToDisplayEvent(events[Least(Gate(last.sid)) + 1])

\* ---------------------------------------------------------------------- C2
\* C2: a submission for a (session, event) pair that already has an answer
\* record reports duplicate = true and changes nothing: the answer records,
\* the armed timers (no branch injection) and every cursor stay as they were.
C2_DuplicateIsNoOp ==
  [][\A s \in Sessions, e \in AllIds :
       (/\ RequestStep("answer")
        /\ last'.sid = s /\ last'.eid = e /\ last'.status = 200
        /\ answers[s][e] # <<>>)
       => /\ last'.duplicate
          /\ answers' = answers
          /\ timers' = timers
          /\ cursors' = cursors]_vars

\* a duplicate submission for the event at the session's cursor was handled
C2_Witness ==
  /\ last.op = "answer" /\ last.status = 200 /\ last.duplicate
  /\ Len(answers[last.sid][last.eid]) = 1
  /\ AtCursor(last.sid, last.eid)

\* ---------------------------------------------------------------------- C3
\* C3 as stated: a submission that carries an event id and an answer advances
\* the session's cursor by exactly one if the answered event is at the cursor
\* position, and leaves it unchanged otherwise.
C3_Original ==
  [][\A s \in Sessions :
       (RequestStep("answer") /\ last'.sid = s /\ last'.status = 200)
       => CursorAfter(s) =
            IF AtCursor(s, last'.eid) THEN CursorOf(s) + 1 ELSE CursorOf(s)]_vars

\* C3 amended: a submission advances the session's cursor by exactly one if
\* it is accepted, is not a duplicate and the answered event is at the cursor
\* position; in every other case the cursor of every session is unchanged.
C3_AdvanceIffAtCursor ==
  [][\A s \in Sessions :
       RequestStep("answer")
       => CursorAfter(s) =
            IF /\ last'.sid = s /\ last'.status = 200
               /\ AtCursor(s, last'.eid)
               /\ answers[s][last'.eid] = <<>>
            THEN CursorOf(s) + 1
            ELSE CursorOf(s)]_vars

\* a first answer for the event at the cursor moved the cursor past it
C3_Witness ==
  /\ last.op = "answer" /\ last.status = 200 /\ ~last.duplicate
  /\ CursorOf(last.sid) >= 1
  /\ events[CursorOf(last.sid)].id = last.eid

\* ---------------------------------------------------------------------- C4
\* C4 as stated: no step ever lowers a session's cursor.
C4_Original ==
  [][\A s \in Sessions : CursorAfter(s) >= CursorOf(s)]_vars

\* C4 amended: no poll, answer submission, game start, timer callback or
\* clock tick lowers a session's cursor; only an admin set-cursor request
\* and an admin reset can.
C4_MonotoneExceptAdmin ==
  [][\A s \in Sessions :
       ~(RequestStep("cursor") \/ RequestStep("reset"))
       => CursorAfter(s) >= CursorOf(s)]_vars

\* a submission handled for a session whose cursor an admin had moved forward
C4_Witness ==
  /\ last.op = "answer" /\ last.status = 200
  /\ CursorOf(last.sid) = Len(events)
  /\ \E e \in EventIds : answers[last.sid][e] = <<>> /\ \E k \in 1..Len(events) : events[k].id = e

\* ---------------------------------------------------------------------- C5
\* C5: a timer armed before a reset (event-firing or auto-hide, armed by
\* startGame or by branch injection) changes no scheduler state when it runs
\* after the reset: the broadcast slot and gameStartTime stay as they were.
C5_Original ==
  [][(TimerStep /\ last'.stale)
     => (currentEvent' = currentEvent /\ gameStartTime' = gameStartTime)]_vars

\* ---------------------------------------------------------------------- C6
\* C6: once a reset has cancelled pending timers armed by startGame, the game
\* is inactive with a null start time and getCurrentEvent() is null, and the
\* slot stays null as time advances until a new start or injection is made.
C6_Original ==
  [][(last.op = "reset" /\ last.cancelled > 0)
     => /\ currentEvent = Null /\ gameStartTime = <<>>
        /\ currentEvent' = Null
        /\ (gameStartTime' = <<>> \/ RequestStep("start"))]_vars

\* ---------------------------------------------------------------------- C7
\* C7: when no mandatory unanswered event lies below the session's cursor,
\* resolve returns the event at the cursor if the cursor is a valid index and
\* the none view (type none, empty id, empty content) otherwise, whatever
\* mandatory unanswered events lie at or after the cursor.
C7_EventAtCursor ==
  \A s \in Sessions :
    Gate(s) = {} =>
      ViewOf(s) = IF CursorOf(s) < Len(events)
                  THEN eventToDisplayEvent(events[CursorOf(s) + 1])
                  ELSE [type |-> "none", eventId |-> "", content |-> <<>>]

\* a poll answered with the event at the cursor while a mandatory event the
\* session has not answered lies after the cursor
C7_Witness ==
  /\ last.op = "poll"
  /\ Gate(last.sid) = {}
  /\ \E p \in (CursorOf(last.sid) + 1)..(Len(events) - 1) :
       events[p + 1].mandatory = <<TRUE>> /\ answers[last.sid][events[p + 1].id] = <<>>
  /\ last.view.eventId = events[CursorOf(last.sid) + 1].id

\* ---------------------------------------------------------------------- C8
\* C8: when a session is gated on a mandatory event below its cursor and
\* submits an answer for that event, its cursor keeps its value and resolve
\* then returns the next unanswered mandatory event below the cursor if there
\* is one, otherwise the event at the cursor (the none view past the end).
C8_CatchUpReleasesGate ==
  [][\A s \in Sessions :
       (/\ RequestStep("answer") /\ last'.sid = s /\ last'.status = 200
        /\ Gate(s) # {}
        /\ last'.eid = events[Least(Gate(s)) + 1].id)
       => /\ CursorAfter(s) = CursorOf(s)
          /\ LET rest == Gate(s) \ {Least(Gate(s))}
             IN ViewAfter(s) =
                  IF rest # {} THEN eventToDisplayEvent(events[Least(rest) + 1])
                  ELSE IF CursorOf(s) < Len(events)
                       THEN eventToDisplayEvent(events[CursorOf(s) + 1])
                       ELSE NoneEvent("")]_vars

\* a catch-up answer for a mandatory event below the cursor was recorded and
\* the session is now shown the event at its cursor
C8_Witness ==
  /\ last.op = "answer" /\ last.status = 200 /\ ~last.duplicate
  /\ \E p \in 0..(CursorOf(last.sid) - 1) :
       /\ p < Len(events)
       /\ events[p + 1].id = last.eid
       /\ events[p + 1].mandatory = <<TRUE>>
  /\ CursorOf(last.sid) < Len(events)
  /\ ViewOf(last.sid).eventId = events[CursorOf(last.sid) + 1].id

\* ---------------------------------------------------------------------- C9
InTimeline(eventId) == \E k \in 1..Len(events) : events[k].id = eventId

\* C9: a submission that carries an answer for an event id absent from the
\* timeline is answered with 404 and changes nothing: no answer record, no
\* injected timer, no cursor change.
C9_Original ==
  [][(RequestStep("answer") /\ last'.status # 400 /\ ~InTimeline(last'.eid))
     => /\ last'.status = 404
        /\ answers' = answers
        /\ timers' = timers
        /\ cursors' = cursors]_vars

\* --------------------------------------------------------------------- C10
\* C10: however submissions for one (session, event) pair interleave, the
\* pair has at most one answer record, and a submission reports
\* duplicate = false only when the pair had no record before it and has
\* exactly one after it.
C10_AtMostOneRecord ==
  /\ [](\A s \in Sessions, e \in AllIds : Len(answers[s][e]) <= 1)
  /\ [][\A s \in Sessions, e \in AllIds :
          (/\ RequestStep("answer")
           /\ last'.sid = s /\ last'.eid = e /\ last'.status = 200
           /\ ~last'.duplicate)
          => (answers[s][e] = <<>> /\ Len(answers'[s][e]) = 1)]_vars

\* both sessions' second submissions for the same event were reported as
\* duplicates of the one record each pair holds
C10_Witness ==
  /\ last.op = "answer" /\ last.duplicate
  /\ \A s \in Sessions : Len(answers[s][last.eid]) = 1

\* --------------------------------------------------------------------- C11
\* C11: a start request handled while the game is already running changes
\* nothing in the scheduler: gameStartTime keeps its value, the armed timers
\* are the same (none armed, none re-armed) and the broadcast slot is the same.
C11_StartWhileRunningIsNoOp ==
  [][(RequestStep("start") /\ gameStartTime # <<>>)
     => /\ gameStartTime' = gameStartTime
        /\ timers' = timers
        /\ currentEvent' = currentEvent
        /\ last'.warned]_vars

\* a second start was handled after the clock had moved on from the first,
\* with timers of the first start still armed and an event on display
C11_Witness ==
  /\ last.op = "start" /\ last.warned
  /\ gameStartTime # <<>> /\ gameStartTime[1] < now
  /\ timers # <<>>
  /\ currentEvent # Null

C15_Expected(answer) ==
  CASE answer.typeof = "string" -> answer.str
    [] answer.typeof = "number" /\ answer.num = 5 -> <<"5">>
    [] answer.typeof = "number" /\ answer.num = 42 -> <<"4", "2">>
    [] answer.typeof = "boolean" -> <<"t", "r", "u", "e">>
    [] answer.class = "null" -> <<"n", "u", "l", "l">>
    [] answer.class = "array" -> <<"[", "\"", "a", "\"", ",", "\"", "b", "\"", "]">>
    [] OTHER -> <<"{", "\"", "k", "\"", ":", "\"", "a", "\"", "}">>

\* C15: for an event without a validation rule, evaluateAnswer returns a
\* string answer exactly as submitted (not trimmed, not lower-cased, the empty
\* string stays empty) and the JSON text of a non-string answer; the key
\* depends on the answer and the event alone.
C15_LiteralKey ==
  (last.op = "evaluate" /\ events[1].validation = NoValidation)
  => last.key = <<C15_Expected(last.input)>>

\* an array answer was evaluated to its JSON text
C15_Witness ==
  /\ last.op = "evaluate"
  /\ events[1].validation = NoValidation
  /\ last.input = Arr(<<(<<"a">>), (<<"b">>)>>)
  /\ last.key = <<(<<"[", "\"", "a", "\"", ",", "\"", "b", "\"", "]">>)>>

\* --------------------------------------------------------------------- C16
\* C16: for a question or multiple_choice event with an exact rule, the key
\* is "correct" exactly when the trimmed, lower-cased text of the answer
\* equals the trimmed, lower-cased text of some entry of correctAnswers, and
\* "wrong" otherwise; " 5 " against ["5"] gives "correct".
C16_ExactMatch ==
  (/\ last.op = "evaluate"
   /\ events[1].type \in {"question", "multiple_choice"}
   /\ events[1].validation # NoValidation
   /\ events[1].validation.type = "exact")
  => LET entries == events[1].validation.correctAnswers
         text == ToLowerCase(Trim(String(last.input)))
         matches == \E k \in 1..Len(entries) : ToLowerCase(Trim(entries[k])) = text
     IN /\ last.key = IF matches THEN <<Correct>> ELSE <<Wrong>>
        /\ (last.input = Str(<<" ", "5", " ">>) /\ entries = <<(<<"5">>)>>)
             => last.key = <<Correct>>

\* " 5 " was judged against ["5"] and found correct
C16_Witness ==
  /\ last.op = "evaluate"
  /\ events[1].type = "question"
  /\ events[1].validation = [type |-> "exact", correctAnswers |-> <<Five>>]
  /\ last.input = Str(<<" ", "5", " ">>)
  /\ last.key = <<Correct>>

\* --------------------------------------------------------------------- C17
\* the ids of a list of child definitions
C17_Ids(children) == [k \in 1..Len(children) |-> children[k].id]

\* C17: a submission that is not a duplicate succeeds, and the definitions
\* handed to the scheduler are all those of the list when triggers.onAnswer
\* is an unconditional list, whatever the answer; when it is a keyed mapping
\* they are exactly those listed under the evaluated trigger key, and none
\* when the mapping has no such key.
C17_Original ==
  [][(/\ RequestStep("answer") /\ last'.status # 400
      /\ last'.eid = events[1].id
      /\ answers[last'.sid][last'.eid] = <<>>)
     => LET onAnswer == events[1].onAnswer
            triggerKey == evaluateAnswer(last'.input, events[1])
            listed == {k \in 1..Len(onAnswer.keys) : onAnswer.keys[k] = triggerKey}
        IN /\ onAnswer.kind = "array"
                => /\ last'.status = 200
                   /\ last'.triggered = C17_Ids(onAnswer.list)
           /\ onAnswer.kind = "map"
                => /\ last'.status = 200
                   /\ last'.triggered =
                        IF listed = {} THEN <<>>
                        ELSE C17_Ids(onAnswer.lists[CHOOSE k \in listed : TRUE])]_vars

\* --------------------------------------------------------------------- C18
\* the content with every {answer} token replaced by the given text as it is
RECURSIVE C18_Literal(_, _)
C18_Literal(content, text) ==
  IF content = <<>> THEN <<>>
  ELSE (IF Head(content) = AnswerToken THEN text ELSE <<Head(content)>>)
       \o C18_Literal(Tail(content), text)

\* C18: every timer a submission arms for a branch event carries the child
\* definition's content with each {answer} token replaced by the literal text
\* of the submitted answer, nothing in that text being interpreted.
C18_Original ==
  [][(RequestStep("answer") /\ last'.status = 200 /\ ~last'.duplicate)
     => LET children == selectTriggered(events, last'.eid, last'.input)
        IN \A k \in (Len(timers) + 1)..Len(timers') :
             \E j \in 1..Len(children) :
               /\ timers'[k].event.id = children[j].id
               /\ timers'[k].event.content =
                    C18_Literal(children[j].content, String(last'.input))]_vars

\* --------------------------------------------------------------------- C13
\* C13: when the auto-hide timer of a firing runs (a timer that no reset has
\* gone over), the broadcast slot becomes the none sentinel carrying the id
\* of the fired event if no other firing has replaced the slot since, and is
\* left as it was otherwise.
C13_Original ==
  [][(TimerStep /\ last'.op = "hide" /\ ~last'.stale)
     => currentEvent' = IF last'.replaced THEN currentEvent
                        ELSE NoneEvent(last'.eid)]_vars

\* --------------------------------------------------------------------- C12
\* C12: a start arms timers only for timeline events whose triggerAt is not
\* in the past; while the game runs, no timeline event fires whose triggerAt
\* was already past when the game was started, and no timeline event fires
\* that has fired before since that start.
C12_Original ==
  /\ [][(RequestStep("start") /\ gameStartTime = <<>>)
        => \A k \in (Len(timers) + 1)..Len(timers') :
             timers'[k].kind = "fire" /\ timers'[k].event.triggerAt >= now]_vars
  /\ [][(/\ TimerStep /\ last'.op = "fire" /\ gameStartTime # <<>>
         /\ \E j \in 1..Len(events) : events[j] = last'.event)
        => /\ last'.event.triggerAt >= gameStartTime[1]
           /\ ~last'.again]_vars

\* --------------------------------------------------------------------- C19
\* C19: a loadEvents call made while the game is running leaves the working
\* timeline as it was.
C19_Original ==
  [][(RequestStep("load") /\ gameStartTime # <<>>) => events' = events]_vars

\* --------------------------------------------------------------------- C20
\* C20: the timeline the scheduler works on never holds two events with the
\* same id, nor an event without a type: loading such a timeline fails.
C20_Original ==
  /\ \A j, k \in 1..Len(events) : j # k => events[j].id # events[k].id
  /\ \A k \in 1..Len(events) : events[k].type # Missing

\* --------------------------------------------------------------------- C21
\* C21: a submission that lacks eventId or answer is rejected with 400 before
\* any state is touched: the session rows, the answer records, the cursors
\* and the scheduler state are the same after the request as before it.
C21_Original ==
  [][(RequestStep("answer") /\ last'.status = 400)
     => /\ sessions' = sessions
        /\ answers' = answers
        /\ cursors' = cursors
        /\ gameStartTime' = gameStartTime
        /\ currentEvent' = currentEvent
        /\ timers' = timers]_vars

\* --------------------------------------------------------------------- C22
\* definitions a view could have come from: every kind, validation rule and
\* trigger shape of the evaluator's events, under two contents
C22_Definitions ==
  {[d EXCEPT !.content = content] : d \in EvalEvents, content \in {<<"Q">>, <<"R">>}}

\* the definitions whose participant-facing view is the given view
C22_Sources(view) == {d \in C22_Definitions : eventToDisplayEvent(d) = view}

C23_ViewIgnoresScheduler ==
  last.op = "poll"
  => last.view = getEventForSession(events, getSessionCursor(cursors, last.sid),
                                    answers, last.sid)

\* a poll was answered while the game was running with timers armed and the
\* broadcast slot held an event other than the one returned
C23_Witness ==
  /\ last.op = "poll"
  /\ gameStartTime # <<>>
  /\ timers # <<>>
  /\ currentEvent # Null /\ currentEvent.type # "none"
  /\ currentEvent # last.view

\* --------------------------------------------------------------------- C24
\* C24: a poll is read-only: it changes no cursor, no answer record and no
\* scheduler state (gameStartTime, broadcast slot, armed timers), and it
\* leaves the view of every session as it was, so that two polls return the
\* same views in either order.
C24_PollIsReadOnly ==
  [][RequestStep("poll")
     => /\ cursors' = cursors
        /\ answers' = answers
        /\ gameStartTime' = gameStartTime
        /\ currentEvent' = currentEvent
        /\ timers' = timers
        /\ events' = events
        /\ \A s \in Sessions : ViewAfter(s) = ViewOf(s)
        /\ last'.view = ViewOf(last'.sid)]_vars

\* a participant whose cursor has moved polled after the other participant
\* had made a request
C24_Witness ==
  /\ last.op = "poll" /\ last.status = 200
  /\ CursorOf(last.sid) = 1
  /\ answers[last.sid][events[1].id] # <<>>
  /\ sessions = Sessions

\* --------------------------------------------------------------------- C25
\* C25: a fetchWithRetry call makes at most 4 attempts and terminates: it
\* resolves with the response of the first successful attempt and makes no
\* further attempt, and it rejects exactly when the 4th attempt has failed,
\* with the error of that attempt.
C25_BoundedRetries ==
  /\ [](/\ client.attempts <= 4
        /\ client.pc = "resolved"
             => /\ client.value = <<client.attempts>>
                /\ Len(client.errors) = client.attempts - 1
                /\ client.thrown = <<>>
        /\ client.pc = "rejected"
             => /\ client.attempts = 4
                /\ Len(client.errors) = 4
                /\ client.thrown = <<client.errors[4]>>
                /\ client.value = <<>>
        /\ client.pc = "sleeping"
             => client.attempts < 4 /\ Len(client.errors) = client.attempts)
  /\ [][(client.pc \in {"resolved", "rejected"} /\ client'.calls = client.calls)
        => client' = client]_vars
  /\ (client.pc \in {"fetching", "sleeping"}) ~> (client.pc \in {"resolved", "rejected"})

\* a call resolved with the response of its 4th attempt after three failures
C25_Witness ==
  /\ client.pc = "resolved"
  /\ client.attempts = 4
  /\ client.value = <<4>>
  /\ Len(client.errors) = 3

\* --------------------------------------------------------------------- C26
\* the body of the set-cursor request carries a number within the timeline
C26_InRange(eventIndexOpt) ==
  eventIndexOpt # <<>> /\ eventIndexOpt[1] >= 0 /\ eventIndexOpt[1] <= Len(events)

\* C26 as stated: a set-cursor request sets the cursor of the named session
\* to exactly eventIndex when eventIndex is a number in [0, timeline length],
\* and otherwise is rejected with an error and leaves the cursor unchanged.
C26_Original ==
  [][\A s \in Sessions :
       (RequestStep("cursor") /\ last'.sid = s)
       => IF C26_InRange(last'.input)
          THEN last'.status = 200 /\ cursors'[s] = <<last'.input[1]>>
          ELSE last'.status # 200 /\ cursors' = cursors]_vars

\* C26 amended: a set-cursor request sets the cursor of the named session to
\* exactly eventIndex, and no other cursor, when eventIndex is a number in
\* [0, timeline length] and the session exists; it is rejected with 400 when
\* eventIndex is not such a number and fails with 500 when the session does
\* not exist, and every cursor is then unchanged.
C26_SetCursorOfKnownSession ==
  [][\A s \in Sessions :
       (RequestStep("cursor") /\ last'.sid = s)
       => IF ~C26_InRange(last'.input)
          THEN last'.status = 400 /\ cursors' = cursors
          ELSE IF s \notin sessions
          THEN last'.status = 500 /\ cursors' = cursors
          ELSE /\ last'.status = 200
               /\ cursors' = [cursors EXCEPT ![s] = <<last'.input[1]>>]]_vars

\* the cursor of a participant who had advanced was set back to 0
C26_Witness ==
  /\ last.op = "cursor" /\ last.status = 200
  /\ last.input = <<0>>
  /\ cursors[last.sid] = <<0>>
  /\ Len(events) >= 1
  /\ answers[last.sid][events[1].id] # <<>>

\* --------------------------------------------------------------------- C27
\* C27: every branch definition a non-duplicate submission injects is armed
\* with zero delay, in the order listed, so that it fires unless a reset
\* comes first; none is skipped as being in the past.
C27_Original ==
  [][(RequestStep("answer") /\ last'.status = 200 /\ ~last'.duplicate)
     => /\ Len(timers') = Len(timers) + Len(last'.triggered)
        /\ \A k \in 1..Len(last'.triggered) :
             LET t == timers'[Len(timers) + k]
             IN /\ t.kind = "fire"
                /\ t.event.id = last'.triggered[k]
                /\ t.delay = 0]_vars

\* --------------------------------------------------------------------- C28
\* the ids of the listed children, in order, without those at the positions
\* given (the children scheduleEvent did not arm)
C28_Armed(ids, skipped) ==
  LET Keep(k) == k \notin skipped
      RECURSIVE Pick(_)
      Pick(k) == IF k > Len(ids) THEN <<>>
                 ELSE (IF Keep(k) THEN <<ids[k]>> ELSE <<>>) \o Pick(k + 1)
  IN Pick(1)

\* C28: the branch definitions one submission injects are armed in the order
\* in which they are listed and a branch timer runs only when no branch timer
\* armed before it for the same instant is pending, whichever participant's
\* submission armed it: the children of a submission fire first-listed first
\* and each firing puts its definition in the broadcast slot, so the slot
\* holds the last-listed one once all have fired.
C28_ListedOrder ==
  /\ [][(RequestStep("answer") /\ last'.status = 200 /\ ~last'.duplicate)
        => /\ Len(timers') >= Len(timers)
           /\ \E skipped \in SUBSET (1..Len(last'.triggered)) :
                [k \in 1..(Len(timers') - Len(timers)) |->
                   timers'[Len(timers) + k].event.id]
                = C28_Armed(last'.triggered, skipped)]_vars
  /\ [][(TimerStep /\ last'.op = "fire")
        => /\ \E k \in 1..Len(timers) :
                /\ timers[k].kind = "fire" /\ timers[k].event = last'.event
                /\ \A j \in 1..(k - 1) :
                     ~(timers[j].kind = "fire" /\ timers[j].due <= timers[k].due)
           /\ currentEvent' = eventToDisplayEvent(last'.event)]_vars

\* both participants' submissions injected the two children at the same
\* instant; all four have fired and the slot holds the last-listed child
C28_Witness ==
  /\ last.op = "fire"
  /\ events[1].onAnswer.kind = "array"
  /\ \A s \in Sessions : answers[s][events[1].id] # <<>>
  /\ now = 1
  /\ \A k \in 1..Len(timers) : timers[k].kind = "hide"
  /\ Len(timers) = 2
  /\ last.event.id = NiceChild.id
  /\ currentEvent = eventToDisplayEvent(last.event)

\* --------------------------------------------------------------------- C29
\* what separates the session from the none view: the events from its cursor
\* to the end of the timeline and the unanswered mandatory events below it
C29_Remaining(cur, ans, s) ==
  LET c == getSessionCursor(cur, s)
  IN (IF c < Len(events) THEN Len(events) - c ELSE 0)
     + Cardinality({p \in 0..(c - 1) :
                      /\ p < Len(events)
                      /\ events[p + 1].mandatory = <<TRUE>>
                      /\ ans[s][events[p + 1].id] = <<>>})

\* C29: in every reachable state a submission for the event resolve returns
\* to the participant brings the participant closer to the none view, so
\* that repeating it ends with the none view; no state leaves a participant
\* on the same event whatever they submit for it.
C29_Original ==
  [][\A s \in Sessions :
       (/\ RequestStep("answer") /\ last'.sid = s /\ last'.status # 400
        /\ ViewOf(s).type # "none"
        /\ last'.eid = ViewOf(s).eventId)
       => C29_Remaining(cursors', answers', s) < C29_Remaining(cursors, answers, s)]_vars

\* --------------------------------------------------------------------- C30
\* C30: a submission whose branch processing (answer evaluation or branch
\* injection) ends in an error leaves progression state unchanged: no answer
\* record is kept for it and no cursor moves, so the same submission made
\* again is not a duplicate.
C30_Original ==
  [][(RequestStep("answer") /\ last'.status = 500)
     => /\ answers' = answers
        /\ cursors' = cursors
        /\ ~hasSessionAnswered(answers', last'.sid, last'.eid)]_vars

\* --------------------------------------------------------------------- C31
\* C31: while a session has an unanswered mandatory event at a position below
\* its cursor, no submission advances that session's cursor.
C31_Original ==
  [][\A s \in Sessions :
       (RequestStep("answer") /\ last'.sid = s /\ Gate(s) # {})
       => CursorAfter(s) = CursorOf(s)]_vars

\* --------------------------------------------------------------------- C32
\* C32: in a run of polls and submissions only, every event below a
\* session's cursor has an answer record of that session; the cursor stays
\* within the timeline, the mandatory gate is empty and resolve returns the
\* event at the cursor, or the none view at the end of the timeline.
C32_AnsweredBelowCursor ==
  \A s \in Sessions :
    /\ CursorOf(s) <= Len(events)
    /\ \A p \in 0..(CursorOf(s) - 1) : answers[s][events[p + 1].id] # <<>>
    /\ Gate(s) = {}
    /\ ViewOf(s) = IF CursorOf(s) < Len(events)
                   THEN eventToDisplayEvent(events[CursorOf(s) + 1])
                   ELSE NoneEvent("")

\* a participant who answered both events of a timeline that starts with a
\* mandatory event polled and was shown the none view
C32_Witness ==
  /\ last.op = "poll" /\ last.view = NoneEvent("")
  /\ Len(events) = 2 /\ events[1].mandatory = <<TRUE>>
  /\ cursors[last.sid] = <<2>>

\* --------------------------------------------------------------------- C33
\* C33: whenever the scheduler is Idle (gameStartTime is null) no timer is
\* armed and the broadcast slot is null.
C33_Original ==
  gameStartTime = <<>> => (timers = <<>> /\ currentEvent = Null)

\* --------------------------------------------------------------------- C34
\* C34: every session's cursor c satisfies 0 <= c <= timeline length, after
\* any sequence of submissions and admin set-cursor requests.
C34_CursorWithinTimeline ==
  \A s \in Sessions : CursorOf(s) >= 0 /\ CursorOf(s) <= Len(events)

\* an admin had put the cursor at the timeline length and the participant's
\* next, recorded submission left it there
C34_Witness ==
  /\ last.op = "answer" /\ last.status = 200 /\ ~last.duplicate
  /\ Len(events) = MaxEvents
  /\ cursors[last.sid] = <<Len(events)>>
  /\ answers[last.sid][events[Len(events)].id] = <<>>

\* --------------------------------------------------------------------- C35
\* C35: an answer submission by one session leaves every other session's
\* cursor, answer records and resolved view unchanged.
C35_Isolation ==
  [][\A a \in Sessions, b \in Sessions :
       (RequestStep("answer") /\ last'.sid = a /\ b # a)
       => /\ cursors'[b] = cursors[b]
          /\ answers'[b] = answers[b]
          /\ ViewAfter(b) = ViewOf(b)]_vars

\* a first answer of one participant was recorded and moved their cursor
\* while the other participant had answered the same event before
C35_Witness ==
  /\ last.op = "answer" /\ last.status = 200 /\ ~last.duplicate
  /\ Len(events) >= 1 /\ last.eid = events[1].id
  /\ \A s \in Sessions : cursors[s] = <<1>> /\ Len(answers[s][events[1].id]) = 1

\* --------------------------------------------------------------------- C36
\* the fields of a definition that a participant must not see
C36_Hidden == {"validation", "onAnswer", "triggers", "correctAnswers", "pattern"}

\* the definition without its validation rule and its branch definitions
C36_Stripped(event) ==
  [event EXCEPT !.validation = NoValidation, !.onAnswer = NoTriggers]

\* C36: no view, whether a poll returned it or the broadcast slot holds it,
\* has a field for the validation rule or the branch definitions, and it is
\* the view of the definition with rule and branches taken away: timelines
\* that differ only in these give the same views.
C36_ViewsHideRules ==
  /\ (last.op = "poll" /\ last.view.type # "none")
       => /\ DOMAIN last.view \cap C36_Hidden = {}
          /\ \E k \in 1..Len(events) :
               /\ last.view.eventId = events[k].id
               /\ last.view = eventToDisplayEvent(C36_Stripped(events[k]))
  /\ currentEvent # Null => DOMAIN currentEvent \cap C36_Hidden = {}
  /\ last.op = "fire" => currentEvent = eventToDisplayEvent(C36_Stripped(last.event))

\* a poll returned the question that has an exact rule and a branch while the
\* broadcast slot held the same question
C36_Witness ==
  /\ last.op = "poll"
  /\ Len(events) = 2
  /\ events[2].validation # NoValidation /\ events[2].onAnswer # NoTriggers
  /\ last.view.eventId = events[2].id
  /\ currentEvent = last.view

\* --------------------------------------------------------------------- C37
\* C37: a first answer to the event at the session's cursor is recorded and
\* advances the cursor by one whether the event's rule finds it correct or
\* wrong; once the record exists every further submission for the event is
\* a duplicate that stores nothing, so the recorded answer cannot be replaced.
C37_NoRejection ==
  /\ [][\A s \in Sessions :
          (/\ RequestStep("answer") /\ last'.sid = s /\ last'.status # 400
           /\ AtCursor(s, last'.eid)
           /\ answers[s][last'.eid] = <<>>)
          => /\ last'.status = 200 /\ ~last'.duplicate
             /\ answers'[s][last'.eid] = <<String(last'.input)>>
             /\ CursorAfter(s) = CursorOf(s) + 1
             /\ events[CursorOf(s) + 1].validation # NoValidation
                  => evaluateAnswer(last'.input, events[CursorOf(s) + 1])
                       \in {Correct, Wrong}]_vars
  /\ [][\A s \in Sessions :
          (/\ RequestStep("answer") /\ last'.sid = s /\ last'.status # 400
           /\ answers[s][last'.eid] # <<>>)
          => /\ last'.duplicate
             /\ answers'[s][last'.eid] = answers[s][last'.eid]
             /\ CursorAfter(s) = CursorOf(s)]_vars

\* the question was answered wrongly, the cursor moved past it, and the
\* correct answer submitted afterwards was turned away as a duplicate
C37_Witness ==
  /\ last.op = "answer" /\ last.duplicate
  /\ Len(events) = 2 /\ last.eid = events[2].id
  /\ answers[last.sid][last.eid] = <<No>>
  /\ evaluateAnswer(Str(No), events[2]) = Wrong
  /\ last.input = Str(PaddedFive)
  /\ evaluateAnswer(last.input, events[2]) = Correct
  /\ cursors[last.sid] = <<2>>

\* --------------------------------------------------------------------- C38
\* C38: the displayed event is always that of the most recently issued poll
\* among the polls whose responses have arrived: a response of an earlier
\* poll that arrives later does not replace it.
C38_Original ==
  client.newest.seq > 0
  => ~hasEventChanged(client.displayState, client.newest.body)

\* --------------------------------------------------------------------- C39
\* C39: while the polling loop waits for its next poll, the wait is
\* min(2000 * 2^(k-1), 30000) ms after k >= 1 consecutive failed polls, and
\* after a successful poll it is 1000 ms while an event is shown and 2000 ms
\* while none is, with the backoff back at 2000 ms.
C39_Original ==
  client.loop = "waiting"
  => IF client.failures >= 1
     THEN client.wait = Min(2000 * Pow2(client.failures - 1), 30000)
     ELSE /\ client.currentBackoff = 2000
          /\ client.wait = IF client.displayStateRef # Null
                              /\ client.displayStateRef.type # "none"
                           THEN 1000 ELSE 2000

\* --------------------------------------------------------------------- C40
\* what a relative time means: "now" and "+0s" are the start of the server,
\* "+Xs" is X seconds and "+Xm" is X minutes after it, in milliseconds;
\* any other string is no time
C40_Offset(timeStr) ==
  CASE timeStr \in {RelativeTimes.now, RelativeTimes.plus0s} -> <<0>>
    [] timeStr = RelativeTimes.plus1s -> <<1000>>
    [] timeStr = RelativeTimes.plus2s -> <<2000>>
    [] timeStr \in {RelativeTimes.plus60s, RelativeTimes.plus1m} -> <<60000>>
    [] OTHER -> <<>>

\* the endTime is strictly after the startTime
C40_After(event) ==
  /\ C40_Offset(event.startTime) # <<>>
  /\ C40_Offset(event.endTime[1]) # <<>>
  /\ C40_Offset(event.endTime[1])[1] > C40_Offset(event.startTime)[1]

====
